---- MODULE Spec2Model ----
(***************************************************************************)
(* Transition graph builder, node predicate propagation and soundness      *)
(* check of fbc (src/fbc/graph.py), over boolean filter expressions; the   *)
(* enum membership algebra (src/fbc/algebra/core.py); the Lisp evaluator   *)
(* (src/fbc/lisp/core.py) and its passes (src/fbc/lisp/macros.py).         *)
(***************************************************************************)
EXTENDS Integers, Sequences, FiniteSets, TLC

(***************************************************************************)
(* Bounds of the model.                                                    *)
(***************************************************************************)
\* total number of (condition, target) entries in the transitions dict
MaxTotal == 3
\* number of edges of a graph the caller builds directly
MaxEdges == 3

NodeSeq == <<"a", "b", "c">>
Nodes == {NodeSeq[i] : i \in 1..Len(NodeSeq)}
Atoms == <<"p", "q">>

(***************************************************************************)
(* Boolean expressions (sympy): trees of true, false, symbols, Not, And,   *)
(* Or.  Every node is a record [op, name, args].                           *)
(***************************************************************************)
TrueE == [op |-> "true", name |-> "", args |-> <<>>]
FalseE == [op |-> "false", name |-> "", args |-> <<>>]
Sym(n) == [op |-> "sym", name |-> n, args |-> <<>>]
\* the value of a node attribute that is not set ('pred' not in g.nodes[v])
NoPred == [op |-> "none", name |-> "", args |-> <<>>]

\* the conditions a transition entry may carry
Conds == {TrueE, Sym("p"), Sym("q")}

RECURSIVE FlattenArgs(_, _)
\* the operands of an n-ary And/Or with nested nodes of the same operator
\* spliced in (sympy LatticeOp flattening)
FlattenArgs(o, as) ==
    IF as = <<>> THEN <<>>
    ELSE LET h == Head(as)
         IN  (IF h.op = o THEN h.args ELSE <<h>>) \o FlattenArgs(o, Tail(as))

RECURSIVE Dedup(_)
\* the operands without repetitions, first occurrence kept
Dedup(as) ==
    IF as = <<>> THEN <<>>
    ELSE LET r == Dedup(SubSeq(as, 1, Len(as) - 1))
             l == as[Len(as)]
         IN  IF \E i \in 1..Len(r) : r[i] = l THEN r ELSE Append(r, l)

\* sympy Not(e): constants are negated, a double negation is removed
Not(e) ==
    IF e.op = "true" THEN FalseE
    ELSE IF e.op = "false" THEN TrueE
    ELSE IF e.op = "not" THEN e.args[1]
    ELSE [op |-> "not", name |-> "", args |-> <<e>>]

\* sympy And(*as): flattened, identity true dropped, false annihilates,
\* And() is true and And(x) is x
And(as) ==
    LET f == Dedup(SelectSeq(FlattenArgs("and", as), LAMBDA x : x.op # "true"))
    IN  IF \E i \in 1..Len(f) : f[i].op = "false" THEN FalseE
        ELSE IF f = <<>> THEN TrueE
        ELSE IF Len(f) = 1 THEN f[1]
        ELSE [op |-> "and", name |-> "", args |-> f]

\* sympy Or(*as): flattened, identity false dropped, true annihilates,
\* Or() is false and Or(x) is x
Or(as) ==
    LET f == Dedup(SelectSeq(FlattenArgs("or", as), LAMBDA x : x.op # "false"))
    IN  IF \E i \in 1..Len(f) : f[i].op = "true" THEN TrueE
        ELSE IF f = <<>> THEN FalseE
        ELSE IF Len(f) = 1 THEN f[1]
        ELSE [op |-> "or", name |-> "", args |-> f]

\* a truth assignment is the set of the atoms it makes true
Assignments == SUBSET {Atoms[i] : i \in 1..Len(Atoms)}

RECURSIVE Eval(_, _)
\* the truth value of expression e under assignment s
Eval(e, s) ==
    CASE e.op = "true" -> TRUE
      [] e.op = "false" -> FALSE
      [] e.op = "sym" -> e.name \in s
      [] e.op = "not" -> ~Eval(e.args[1], s)
      [] e.op = "and" -> \A i \in 1..Len(e.args) : Eval(e.args[i], s)
      [] e.op = "or" -> \E i \in 1..Len(e.args) : Eval(e.args[i], s)

\* the assignments that satisfy e
Sat(e) == {s \in Assignments : Eval(e, s)}
Equiv(e, f) == Sat(e) = Sat(f)
Tautology(e) == Sat(e) = Assignments

\* the k-th assignment, k in 0 .. 2^n - 1: atom i is true iff bit i of k is set
NthAssignment(k) == {Atoms[i] : i \in {j \in 1..Len(Atoms) : (k \div (2 ^ (j - 1))) % 2 = 1}}
\* the conjunction of literals that is true exactly under assignment s
Minterm(s) == And([i \in 1..Len(Atoms) |->
                     IF Atoms[i] \in s THEN Sym(Atoms[i]) ELSE Not(Sym(Atoms[i]))])
Literals == [i \in 1..(2 * Len(Atoms)) |->
               IF i <= Len(Atoms) THEN Sym(Atoms[i]) ELSE Not(Sym(Atoms[i - Len(Atoms)]))]

\* sympy simplify(e) on a boolean function of few symbols: an equivalent
\* expression in a normal form; true for a tautology, false for a
\* contradiction, a literal when one is equivalent, else the disjunction of
\* the satisfied minterms in a fixed order
Simplify(e) ==
    LET sat == Sat(e)
        lits == SelectSeq(Literals, LAMBDA l : Sat(l) = sat)
        idx == SelectSeq([k \in 1..(2 ^ Len(Atoms)) |-> k - 1],
                         LAMBDA k : NthAssignment(k) \in sat)
    IN  IF sat = Assignments THEN TrueE
        ELSE IF sat = {} THEN FalseE
        ELSE IF lits # <<>> THEN lits[1]
        ELSE Or([i \in 1..Len(idx) |-> Minterm(NthAssignment(idx[i]))])

(***************************************************************************)
(* State.                                                                  *)
(***************************************************************************)
VARIABLES
    transitions,  \* the dict handed to transition_graph: node -> list of (cond, target)
    pc,           \* position of the run
    filter,       \* g.edges[u, v]['filter'], a function on the edges of g
    succ,         \* g.adj: for each node its successors in insertion order
    pred,         \* g.nodes[v]['pred'], NoPred while the attribute is not set
    source,       \* the source argument of the running call
    nodes,        \* evaluate_node_predicates: the work list
    idx,          \* evaluate_node_predicates: position of the for loop in nodes
    processed,    \* evaluate_node_predicates: processed_nodes of the sweep
    sound,        \* graph_soundness_check: soundness_check(v) of each node examined
    operands,     \* algebra: the sympy operands constructed so far
    call,         \* algebra: the last call made, with its arguments
    ret,          \* algebra: what the last call returned or raised
    handle_reg,   \* Lisp.handle_reg: the handles declared by decorators, in order
    lisp,         \* the Lisp instance in use: its sexp_handles and sexp_cond_handles
    sexp,         \* the sexp handed to the evaluation
    result,       \* the result of the evaluation (res of eval_step)
    macro_idx,    \* LispEnv.apply_macros: number of the macros of self.macros applied
    batch,        \* PoolProcess.process_batch: the batch of argument tuples
    pool,         \* the worker processes of the Pool: the task each one runs, 0 when idle
    result_batch  \* the results of the tasks that have finished, by position in batch

\* the variables of the transition graph
graphVars == <<transitions, filter, succ, pred, source, nodes, idx, processed, sound>>
\* the variables of the algebra and of the Lisp evaluator
libVars == <<operands, call, ret, handle_reg, lisp, sexp, result>>
\* the variables of the macro loop of LispEnv and of the worker pool
runVars == <<macro_idx, batch, pool, result_batch>>
vars == <<transitions, pc, filter, succ, pred, source, nodes, idx, processed, sound,
          operands, call, ret, handle_reg, lisp, sexp, result,
          macro_idx, batch, pool, result_batch>>

\* no algebra call is in progress
AlgIdle ==
    /\ operands = <<>>
    /\ call = <<>>
    /\ ret = <<>>

\* the Lisp evaluator is not in use
LispIdle ==
    /\ handle_reg = <<>>
    /\ lisp = <<>>
    /\ sexp = <<>>
    /\ result = <<>>

\* no LispEnv.eval and no process_batch is in progress
RunIdle ==
    /\ macro_idx = 0
    /\ batch = <<>>
    /\ pool = <<>>
    /\ result_batch = <<>>

LibIdle == AlgIdle /\ LispIdle /\ RunIdle

NoEdges == [e \in {} |-> TrueE]
Edges == DOMAIN filter
TotalLen(tr) == LET RECURSIVE Sum(_)
                    Sum(i) == IF i = 0 THEN 0 ELSE Len(tr[NodeSeq[i]]) + Sum(i - 1)
                IN  Sum(Len(NodeSeq))

Init ==
    /\ transitions = [u \in Nodes |-> <<>>]
    /\ pc = "input"
    /\ filter = NoEdges
    /\ succ = [u \in Nodes |-> <<>>]
    /\ pred = [u \in Nodes |-> NoPred]
    /\ source = NodeSeq[1]
    /\ nodes = <<>>
    /\ idx = 0
    /\ processed = {}
    /\ sound = [u \in {} |-> TRUE]
    /\ LibIdle

\* the caller appends one (cond, target) entry to the list of node u
AddTransition(u, c, t) ==
    /\ pc = "input"
    /\ TotalLen(transitions) < MaxTotal
    /\ transitions' = [transitions EXCEPT ![u] = Append(@, [cond |-> c, target |-> t])]
    /\ UNCHANGED <<pc, filter, succ, pred, source, nodes, idx, processed, sound>>
    /\ UNCHANGED libVars
    /\ UNCHANGED runVars

(***************************************************************************)
(* transition_graph                                                        *)
(***************************************************************************)
RECURSIVE NodeEdges_mut(_, _, _, _)
\* NodeEdges with the negated earlier conditions left out of the filter
NodeEdges_mut(list, neg, ef, order) ==
    IF list = <<>> THEN [ef |-> ef, order |-> order]
    ELSE LET cond == Head(list).cond
             t == Head(list).target
             edge_filter == IF t \in DOMAIN ef THEN Or(<<ef[t], cond>>) ELSE cond
         IN  NodeEdges_mut(Tail(list),
                           neg,
                           [x \in DOMAIN ef \cup {t} |-> IF x = t THEN edge_filter ELSE ef[x]],
                           IF t \in DOMAIN ef THEN order ELSE Append(order, t))

RECURSIVE NodeEdges(_, _, _, _)
\* the loop over node_transitions of one source node: ef is edge_filters
\* (keyed by target), order the targets in insertion order, neg is
\* neg_trans_filters
NodeEdges(list, neg, ef, order) ==
    IF list = <<>> THEN [ef |-> ef, order |-> order]
    ELSE LET cond == Head(list).cond
             t == Head(list).target
             excluding_trans_filter == And(neg \o <<cond>>)
             edge_filter == IF t \in DOMAIN ef
                            THEN Or(<<ef[t], excluding_trans_filter>>)
                            ELSE excluding_trans_filter
         IN  NodeEdges(Tail(list),
                       Append(neg, Not(cond)),
                       [x \in DOMAIN ef \cup {t} |-> IF x = t THEN edge_filter ELSE ef[x]],
                       IF t \in DOMAIN ef THEN order ELSE Append(order, t))

EdgeFilters(tr, u) == NodeEdges(tr[u], <<>>, NoEdges, <<>>)

\* lines 173-197: nodes, edge filters with override semantics, add_edges_from
BuildEdges ==
    /\ pc = "input"
    /\ LET built == {e \in Nodes \X Nodes : e[2] \in DOMAIN EdgeFilters(transitions, e[1]).ef}
       IN  /\ filter' = [e \in built |-> EdgeFilters(transitions, e[1]).ef[e[2]]]
           /\ succ' = [u \in Nodes |-> EdgeFilters(transitions, u).order]
    /\ pc' = "cycles"
    /\ UNCHANGED <<transitions, pred, source, nodes, idx, processed, sound>>
    /\ UNCHANGED libVars
    /\ UNCHANGED runVars

RECURSIVE ReachFrom(_, _)
\* the nodes reachable from the set S along the edges E (S included)
ReachFrom(S, E) ==
    LET N == S \cup {e[2] : e \in {d \in E : d[1] \in S}}
    IN  IF N = S THEN S ELSE ReachFrom(N, E)

\* HasLongCycle with the test len(c) != 1 dropped: a self circle counts
HasLongCycle_mut(E) ==
    \E u \in Nodes, v \in Nodes :
        /\ \E w \in Nodes : <<u, w>> \in E /\ v \in ReachFrom({w}, E)
        /\ \E w \in Nodes : <<v, w>> \in E /\ u \in ReachFrom({w}, E)

\* nx.simple_cycles(g) has an elementary cycle through two or more nodes
HasLongCycle(E) ==
    \E u \in Nodes, v \in Nodes :
        /\ u # v
        /\ v \in ReachFrom({u}, E)
        /\ u \in ReachFrom({v}, E)

\* lines 201-203: any cycle that is not a self circle raises ValueError
CheckCycles ==
    /\ pc = "cycles"
    /\ pc' = IF HasLongCycle(Edges) THEN "cycle_error" ELSE "selfloops"
    /\ UNCHANGED <<transitions, filter, succ, pred, source, nodes, idx, processed, sound>>
    /\ UNCHANGED libVars
    /\ UNCHANGED runVars

\* RemoveSelfLoops with the commented-out line 213 in force: the negated
\* self filter is conjoined onto the other outbound edges of the node
RemoveSelfLoops_mut ==
    /\ pc = "selfloops"
    /\ filter' = [e \in {d \in Edges : d[1] # d[2]} |->
                     IF <<e[1], e[1]>> \in Edges
                     THEN And(<<Not(filter[<<e[1], e[1]>>]), filter[e]>>)
                     ELSE filter[e]]
    /\ succ' = [u \in Nodes |-> SelectSeq(succ[u], LAMBDA v : v # u)]
    /\ pc' = "simplify"
    /\ UNCHANGED <<transitions, pred, source, nodes, idx, processed, sound>>
    /\ UNCHANGED libVars
    /\ UNCHANGED runVars

\* lines 205-216: every self circle edge is removed; the filters of the
\* other outbound edges are left as they are
RemoveSelfLoops ==
    /\ pc = "selfloops"
    /\ filter' = [e \in {d \in Edges : d[1] # d[2]} |-> filter[e]]
    /\ succ' = [u \in Nodes |-> SelectSeq(succ[u], LAMBDA v : v # u)]
    /\ pc' = "simplify"
    /\ UNCHANGED <<transitions, pred, source, nodes, idx, processed, sound>>
    /\ UNCHANGED libVars
    /\ UNCHANGED runVars

\* lines 218-222: every edge filter is replaced by its simplified form
SimplifyFilters ==
    /\ pc = "simplify"
    /\ filter' = [e \in Edges |-> Simplify(filter[e])]
    /\ pc' = "graph"
    /\ UNCHANGED <<transitions, succ, pred, source, nodes, idx, processed, sound>>
    /\ UNCHANGED libVars
    /\ UNCHANGED runVars

(***************************************************************************)
(* evaluate_node_predicates                                                *)
(***************************************************************************)
RECURSIVE Bfs(_, _, _)
\* breadth first search over the adjacency adj: queue holds the nodes whose
\* successors are still to be visited, out the nodes in the order visited
Bfs(adj, queue, out) ==
    IF queue = <<>> THEN out
    ELSE LET new == SelectSeq(adj[Head(queue)],
                              LAMBDA v : \A i \in 1..Len(out) : out[i] # v)
         IN  Bfs(adj, Tail(queue) \o new, out \o new)

\* bfs_nodes(g, source): [source] + the targets of bfs_edges
bfs_nodes(adj, s) == Bfs(adj, <<s>>, <<s>>)

Range(q) == {q[i] : i \in 1..Len(q)}

\* the sources of the inbound edges of v (g.in_edges(v))
Parents(E, v) == {e[1] : e \in {d \in E : d[2] = v}}

\* simplify_enums(exp, enums) for enums = []: the loop over the enums does
\* not run and exp is returned
simplify_enums(exp) == exp

RECURSIVE OrReduce(_, _)
\* reduce(lambda res, p: res | p, terms, res)
OrReduce(res, terms) ==
    IF terms = <<>> THEN res
    ELSE OrReduce(Or(<<res, Head(terms)>>), Tail(terms))

\* NodePred with the edge filters left out of the terms
NodePred_mut(v) ==
    LET ps == SelectSeq(NodeSeq, LAMBDA u : u \in Parents(Edges, v))
        in_nodes == [i \in 1..Len(ps) |-> pred[ps[i]]]
    IN  simplify_enums(Simplify(OrReduce(FalseE, in_nodes)))

\* NodePred with the terms conjoined instead of disjoined
NodePred_mut2(v) ==
    LET ps == SelectSeq(NodeSeq, LAMBDA u : u \in Parents(Edges, v))
        in_nodes == [i \in 1..Len(ps) |-> And(<<pred[ps[i]], filter[<<ps[i], v>>]>>)]
    IN  simplify_enums(Simplify(And(in_nodes)))

\* line 49-54: the (parent pred & edge filter) terms of the inbound edges of
\* v, disjoined starting from false, simplified
NodePred(v) ==
    LET ps == SelectSeq(NodeSeq, LAMBDA u : u \in Parents(Edges, v))
        in_nodes == [i \in 1..Len(ps) |-> And(<<pred[ps[i]], filter[<<ps[i], v>>]>>)]
    IN  simplify_enums(Simplify(OrReduce(FalseE, in_nodes)))

\* StartEvaluate with the work list holding every node of g
StartEvaluate_mut(s) ==
    /\ pc = "graph"
    /\ source' = s
    /\ nodes' = <<s>> \o SelectSeq(NodeSeq, LAMBDA v : v # s)
    /\ idx' = 1
    /\ processed' = {}
    /\ pc' = "sweep"
    /\ UNCHANGED <<transitions, filter, succ, pred, sound>>
    /\ UNCHANGED libVars
    /\ UNCHANGED runVars

\* line 30: the work list is the nodes in breadth first order from source
StartEvaluate(s) ==
    /\ pc = "graph"
    /\ source' = s
    /\ nodes' = bfs_nodes(succ, s)
    /\ idx' = 1
    /\ processed' = {}
    /\ pc' = "sweep"
    /\ UNCHANGED <<transitions, filter, succ, pred, sound>>
    /\ UNCHANGED libVars
    /\ UNCHANGED runVars

\* ProcessNode without rule (1): a node without inbound edges falls into
\* the branch of the evaluated parents
ProcessNode_mut ==
    /\ pc = "sweep"
    /\ idx <= Len(nodes)
    /\ LET v == nodes[idx]
           in_edges == Parents(Edges, v)
       IN  IF \A u \in in_edges : pred[u] # NoPred
           THEN /\ pred' = [pred EXCEPT ![v] = NodePred(v)]
                /\ processed' = processed \cup {v}
           ELSE UNCHANGED <<pred, processed>>
    /\ idx' = idx + 1
    /\ UNCHANGED <<transitions, pc, filter, succ, source, nodes, sound>>
    /\ UNCHANGED libVars
    /\ UNCHANGED runVars

\* lines 38-57: the body of the for loop for v = nodes[idx]
ProcessNode ==
    /\ pc = "sweep"
    /\ idx <= Len(nodes)
    /\ LET v == nodes[idx]
           in_edges == Parents(Edges, v)
       IN  IF in_edges = {} \/ \A u \in in_edges : u = v
           THEN /\ pred' = [pred EXCEPT ![v] = TrueE]
                /\ processed' = processed \cup {v}
           ELSE IF \A u \in in_edges : pred[u] # NoPred
           THEN /\ pred' = [pred EXCEPT ![v] = NodePred(v)]
                /\ processed' = processed \cup {v}
           ELSE UNCHANGED <<pred, processed>>
    /\ idx' = idx + 1
    /\ UNCHANGED <<transitions, pc, filter, succ, source, nodes, sound>>
    /\ UNCHANGED libVars
    /\ UNCHANGED runVars

\* EndSweep without the test of line 59: a sweep without progress is
\* followed by the next sweep
EndSweep_mut ==
    /\ pc = "sweep"
    /\ idx > Len(nodes)
    /\ LET rest == SelectSeq(nodes, LAMBDA v : v \notin processed)
       IN  /\ nodes' = rest
           /\ idx' = 1
           /\ processed' = {}
           /\ pc' = IF rest = <<>> THEN "evaluated" ELSE "sweep"
    /\ UNCHANGED <<transitions, filter, succ, pred, source, sound>>
    /\ UNCHANGED libVars
    /\ UNCHANGED runVars

\* lines 59-62 and 35: a sweep without progress raises ValueError; else the
\* processed nodes leave the work list and the while loop goes on or ends
EndSweep ==
    /\ pc = "sweep"
    /\ idx > Len(nodes)
    /\ IF processed = {}
       THEN /\ pc' = "eval_error"
            /\ UNCHANGED <<nodes, idx, processed>>
       ELSE LET rest == SelectSeq(nodes, LAMBDA v : v \notin processed)
            IN  /\ nodes' = rest
                /\ idx' = 1
                /\ processed' = {}
                /\ pc' = IF rest = <<>> THEN "evaluated" ELSE "sweep"
    /\ UNCHANGED <<transitions, filter, succ, pred, source, sound>>
    /\ UNCHANGED libVars
    /\ UNCHANGED runVars

(***************************************************************************)
(* soundness check                                                         *)
(***************************************************************************)
\* soundness_check with the outbound filters conjoined instead of disjoined
soundness_check_mut(v) ==
    LET out_predicates == [i \in 1..Len(succ[v]) |-> filter[<<v, succ[v][i]>>]]
    IN  IF Len(out_predicates) # 0
        THEN simplify_enums(Simplify(And(out_predicates))) = TrueE
        ELSE TRUE

\* soundness_check(g, v, enums): the disjunction of the outbound filters of
\* v simplifies to true; a node without outbound edges passes
soundness_check(v) ==
    LET out_predicates == [i \in 1..Len(succ[v]) |-> filter[<<v, succ[v][i]>>]]
    IN  IF Len(out_predicates) # 0
        THEN simplify_enums(Simplify(OrReduce(Head(out_predicates), Tail(out_predicates)))) = TrueE
        ELSE TRUE

\* graph_soundness_check(g, source, enums): soundness_check of every node of
\* bfs_nodes(g, source); the list is built in full before all() reads it
graph_soundness_check(s) ==
    /\ pc = "graph"
    /\ source' = s
    /\ sound' = [v \in Range(bfs_nodes(succ, s)) |-> soundness_check(v)]
    /\ pc' = "sound_done"
    /\ UNCHANGED <<transitions, filter, succ, pred, nodes, idx, processed>>
    /\ UNCHANGED libVars
    /\ UNCHANGED runVars

\* the value graph_soundness_check returned
SoundResult == \A v \in DOMAIN sound : sound[v]

(***************************************************************************)
(* A graph built by the caller, edge by edge (nx.DiGraph.add_edge with a    *)
(* 'filter' attribute), and handed to the propagation or soundness check.  *)
(***************************************************************************)
\* the filters an edge of such a graph may carry
GraphFilters == {TrueE, Sym("p"), Not(Sym("p")), And(<<Sym("p"), Sym("q")>>)}

InitG ==
    /\ transitions = [u \in Nodes |-> <<>>]
    /\ pc = "graph_input"
    /\ filter = NoEdges
    /\ succ = [u \in Nodes |-> <<>>]
    /\ pred = [u \in Nodes |-> NoPred]
    /\ source = NodeSeq[1]
    /\ nodes = <<>>
    /\ idx = 0
    /\ processed = {}
    /\ sound = [u \in {} |-> TRUE]
    /\ LibIdle

AddEdge(u, v, f) ==
    /\ pc = "graph_input"
    /\ <<u, v>> \notin Edges
    /\ Cardinality(Edges) < MaxEdges
    /\ filter' = [e \in Edges \cup {<<u, v>>} |-> IF e = <<u, v>> THEN f ELSE filter[e]]
    /\ succ' = [succ EXCEPT ![u] = Append(@, v)]
    /\ UNCHANGED <<transitions, pc, pred, source, nodes, idx, processed, sound>>
    /\ UNCHANGED libVars
    /\ UNCHANGED runVars

UseGraph ==
    /\ pc = "graph_input"
    /\ pc' = "graph"
    /\ UNCHANGED <<transitions, filter, succ, pred, source, nodes, idx, processed, sound>>
    /\ UNCHANGED libVars
    /\ UNCHANGED runVars

Next ==
    \/ \E u \in Nodes, c \in Conds, t \in Nodes : AddTransition(u, c, t)
    \/ BuildEdges
    \/ CheckCycles
    \/ RemoveSelfLoops
    \/ SimplifyFilters
    \/ \E s \in Nodes : StartEvaluate(s)
    \/ ProcessNode
    \/ EndSweep
    \/ \E s \in Nodes : graph_soundness_check(s)

Spec == Init /\ [][Next]_vars

NextG ==
    \/ \E u \in Nodes, v \in Nodes, f \in GraphFilters : AddEdge(u, v, f)
    \/ UseGraph
    \/ \E s \in Nodes : StartEvaluate(s)
    \/ ProcessNode
    \/ EndSweep
    \/ \E s \in Nodes : graph_soundness_check(s)

SpecG == InitG /\ [][NextG]_vars

(***************************************************************************)
(* Properties.                                                             *)
(***************************************************************************)
\* the (source, target) pairs that occur in the transitions
TransitionPairs(tr) ==
    UNION {{<<u, tr[u][i].target>> : i \in 1..Len(tr[u])} : u \in Nodes}

\* under assignment s, some entry of u with target t has a true condition
\* while the conditions of all earlier entries of u are false
FirstMatch(tr, u, t, s) ==
    \E i \in 1..Len(tr[u]) :
        /\ tr[u][i].target = t
        /\ Eval(tr[u][i].cond, s)
        /\ \A j \in 1..(i - 1) : ~Eval(tr[u][j].cond, s)

\* C1: the edges built from the transitions are exactly the distinct
\* (source, target) pairs, and the filter of source->t is true under an
\* assignment exactly when some entry with target t matches first
C1_OverrideFilters ==
    pc \in {"cycles", "selfloops", "cycle_error"} =>
        /\ Edges = TransitionPairs(transitions)
        /\ \A e \in Edges : \A s \in Assignments :
               Eval(filter[e], s) <=> FirstMatch(transitions, e[1], e[2], s)

\* the edges of [(p, b), (q, c), (true, a)] at a are built: p on a->b,
\* ~p & q on a->c, ~p & ~q on a->a
C1_Witness ==
    /\ pc = "cycles"
    /\ transitions["a"] = <<[cond |-> Sym("p"), target |-> "b"],
                            [cond |-> Sym("q"), target |-> "c"],
                            [cond |-> TrueE, target |-> "a"]>>
    /\ filter[<<"a", "b">>] = Sym("p")
    /\ filter[<<"a", "c">>] = And(<<Not(Sym("p")), Sym("q")>>)
    /\ filter[<<"a", "a">>] = And(<<Not(Sym("p")), Not(Sym("q"))>>)

\* the sequences of k distinct nodes
DistinctSeqs(k) == {q \in [1..k -> Nodes] : \A i \in 1..k, j \in 1..k : i # j => q[i] # q[j]}
\* q[1] -> q[2] -> ... -> q[k] -> q[1] is a cycle of the edges E
IsCycle(q, E) == \A i \in 1..Len(q) : <<q[i], q[(i % Len(q)) + 1]>> \in E
\* E has a directed cycle through two or more distinct nodes
LongCycleExists(E) ==
    \E k \in 2..Cardinality(Nodes) : \E q \in DistinctSeqs(k) : IsCycle(q, E)

\* C2: transition_graph raises the cycle error exactly when the edges of
\* the transitions have a directed cycle through two or more distinct
\* nodes; self-loops alone raise nothing
C2_CycleRejection ==
    /\ pc = "cycle_error" => LongCycleExists(TransitionPairs(transitions))
    /\ pc \notin {"input", "cycles", "cycle_error"} =>
           ~LongCycleExists(TransitionPairs(transitions))

\* a -> b together with b -> a has raised the error
C2_Witness ==
    /\ pc = "cycle_error"
    /\ TransitionPairs(transitions) = {<<"a", "b">>, <<"b", "a">>}

\* the states from the removal of the self-loops on
AfterSelfLoops == {"simplify", "graph", "sweep", "evaluated", "eval_error", "sound_done"}

Reachable == ReachFrom({source}, Edges)
\* the for loop has passed node v in this sweep or an earlier one
Visited(v) ==
    /\ v \in Reachable
    /\ v \notin Range(nodes) \/ \E i \in 1..(idx - 1) : i <= Len(nodes) /\ nodes[i] = v
EvalStates == {"sweep", "evaluated", "eval_error"}

\* C4 as claimed: after evaluate_node_predicates has returned, the source
\* node and every node of the graph without inbound edges have pred = true
C4_RootsResolved ==
    pc = "evaluated" =>
        /\ pred[source] = TrueE
        /\ \A v \in Nodes : Parents(Edges, v) = {} => pred[v] = TrueE

\* C4 as amended: every node of the work list (the nodes reachable from the
\* source, the source included) without inbound edges is resolved with
\* pred = true when the loop passes it, the source has pred = true when the
\* call returns, a node not reachable from the source gets no pred, and a
\* source with an inbound edge from another node is never resolved
C4_ReachableRootsResolved ==
    /\ pc \in EvalStates =>
           \A v \in Nodes :
               /\ Visited(v) /\ Parents(Edges, v) = {} => pred[v] = TrueE
               /\ v \notin Reachable => pred[v] = NoPred
    /\ pc = "evaluated" => pred[source] = TrueE
    /\ pc \in EvalStates /\ ~(Parents(Edges, source) \subseteq {source}) =>
           pred[source] = NoPred /\ pc # "evaluated"

\* the call has returned: the source, without inbound edges, has pred =
\* true and a root that is not reachable from it has none
C4_Witness ==
    /\ pc = "evaluated"
    /\ Parents(Edges, source) = {}
    /\ pred[source] = TrueE
    /\ \E v \in Nodes : \E w \in Nodes :
           /\ v \notin Reachable
           /\ Parents(Edges, v) = {}
           /\ <<v, w>> \in Edges
           /\ pred[v] = NoPred

C6_Termination ==
    /\ [][pc = "sweep" /\ idx > Len(nodes) =>
            IF processed = {}
            THEN pc' = "eval_error"
            ELSE /\ pc' \in {"sweep", "evaluated"}
                 /\ Len(nodes') < Len(nodes)
                 /\ \A v \in processed : pred[v] # NoPred]_vars
    /\ [][pc = "sweep" /\ idx <= Len(nodes) =>
            pc' = "sweep" /\ nodes' = nodes /\ idx' = idx + 1]_vars
    /\ [](pc = "sweep" => idx \in 1..(Len(nodes) + 1))
    /\ [][\A v \in Nodes : pred[v] # NoPred => pred'[v] = pred[v]]_vars
    /\ [](pc = "sweep" =>
            \A i \in 1..Len(nodes) : i >= idx => pred[nodes[i]] = NoPred)
    /\ [](pc = "evaluated" =>
            nodes = <<>> /\ \A v \in Range(bfs_nodes(succ, source)) : pred[v] # NoPred)

\* a second sweep is under way: the first sweep resolved some node and left
\* another on the work list
C6_Witness ==
    /\ pc = "sweep"
    /\ nodes # <<>>
    /\ \E v \in Reachable : pred[v] # NoPred /\ v \notin Range(nodes)

\* C7 as claimed: after a return without error every node of g has a pred
C7_AllNodesHavePred ==
    pc = "evaluated" => \A v \in Nodes : pred[v] # NoPred

\* C7 as amended: after a return without error exactly the nodes reachable
\* from the source have a pred
C7_ReachableNodesHavePred ==
    pc = "evaluated" => \A v \in Nodes : pred[v] # NoPred <=> v \in Reachable

\* the call has returned, b is reached from the source a and has a pred, c
\* is not and has none
C7_Witness ==
    /\ pc = "evaluated"
    /\ source = "a"
    /\ Reachable = {"a", "b"}
    /\ pred["b"] # NoPred
    /\ pred["c"] = NoPred

\* C8: when every node is reachable from the source, the pred of a node is
\* true under an assignment exactly when a path from the source to the node
\* exists along edges whose filters are true under the assignment
C8_PredIsPathCondition ==
    pc = "evaluated" /\ Reachable = Nodes =>
        \A v \in Nodes : \A s \in Assignments :
            Eval(pred[v], s) <=>
                v \in ReachFrom({source}, {e \in Edges : Eval(filter[e], s)})

\* a -> b on p, a -> c on ~p and b -> c on q: c is reached on ~p | (p & q)
C8_Witness ==
    /\ pc = "evaluated"
    /\ source = "a"
    /\ Edges = {<<"a", "b">>, <<"a", "c">>, <<"b", "c">>}
    /\ filter[<<"a", "b">>] = Sym("p")
    /\ filter[<<"b", "c">>] = Sym("q")
    /\ Equiv(pred["c"], Or(<<Not(Sym("p")), And(<<Sym("p"), Sym("q")>>)>>))

\* under every assignment some outbound edge of v has a true filter
Exhaustive(v) ==
    \A s \in Assignments : \E w \in Nodes : <<v, w>> \in Edges /\ Eval(filter[<<v, w>>], s)

\* C9: for an examined node with outbound edges soundness_check is True
\* exactly when the disjunction of its outbound filters is a tautology
C9_SoundnessIsTautology ==
    pc = "sound_done" =>
        \A v \in DOMAIN sound : succ[v] # <<>> => (sound[v] <=> Exhaustive(v))

\* a node with the outbound filters p and p & q has failed the check
C9_Witness ==
    /\ pc = "sound_done"
    /\ \E v \in DOMAIN sound : \E w \in Nodes, x \in Nodes :
           /\ w # x
           /\ Range(succ[v]) = {w, x}
           /\ filter[<<v, w>>] = Sym("p")
           /\ filter[<<v, x>>] = And(<<Sym("p"), Sym("q")>>)
           /\ ~sound[v]

\* C10: the result of graph_soundness_check is True exactly when every node
\* of the graph, reachable from the source or not, that has outbound edges
\* has exhaustive outbound filters
C10_AllNodesChecked ==
    pc = "sound_done" =>
        (SoundResult <=> \A v \in Nodes : succ[v] # <<>> => Exhaustive(v))

(***************************************************************************)
(* Enum membership algebra (src/fbc/algebra/core.py): Enum, EnumIn and the *)
(* simplifiers that merge EnumIn predicates.                               *)
(***************************************************************************)
\* number of operands constructed before a simplifier is called
MaxOperands == 3

\* the enums in use; the domain symbol of an enum (Enum.var) goes by the
\* enum's name
EnumNames == {"E", "F"}
\* Enum.members
members(e) == IF e = "E" THEN {1, 2, 3} ELSE {1, 2}
AllMembers == UNION {members(e) : e \in EnumNames}

\* sympy Integer(m): what FiniteSet(*lset) makes of the python int m
Integer(m) == [op |-> "Integer", name |-> ToString(m), args |-> <<>>]
\* the python int that compares (and hashes) equal to a sympy Integer
IntOf(x) == CHOOSE m \in AllMembers : Integer(m) = x

RECURSIVE SortedSeq(_)
\* the elements of a set of ints in canonical (ascending) order
SortedSeq(S) ==
    IF S = {} THEN <<>>
    ELSE LET m == CHOOSE x \in S : \A y \in S : x <= y
         IN  <<m>> \o SortedSeq(S \ {m})

\* sympy FiniteSet(*S): its args are the elements as Integers, in canonical order
FiniteSet(S) ==
    [op |-> "FiniteSet", name |-> "",
     args |-> [i \in 1..Cardinality(S) |-> Integer(SortedSeq(S)[i])]]
\* python set(lset) / set(lset.args) of a FiniteSet
set(lset) == {IntOf(lset.args[i]) : i \in 1..Len(lset.args)}

\* the exception len(enum_in.lset) raises when enum_in is a sympy constant
AttributeError == [op |-> "AttributeError", name |-> "", args |-> <<>>]

RECURSIVE EnumIn(_, _, _)
RECURSIVE reversed(_)
\* EnumIn.__new__ without the reduction of the full member set to true
EnumIn_mut(esym, lset0, nin) ==
    LET lset == FiniteSet(lset0)
        new == [op |-> "EnumIn", name |-> esym, args |-> <<lset>>]
        enum_in == IF nin THEN reversed(new) ELSE new
    IN  IF enum_in.op # "EnumIn" THEN AttributeError
        ELSE IF Len(enum_in.args[1].args) = 0 THEN FalseE
        ELSE enum_in

\* EnumIn.__new__(cls, esym, lset, nin): a sympy constant, an EnumIn object
\* with the attributes esym (name) and lset (args[1]), or an exception
EnumIn(esym, lset0, nin) ==
    LET lset == FiniteSet(lset0)
        new == [op |-> "EnumIn", name |-> esym, args |-> <<lset>>]
        enum_in == IF nin THEN reversed(new) ELSE new
    IN  IF enum_in.op # "EnumIn" THEN AttributeError
        ELSE IF Len(enum_in.args[1].args) = 0 THEN FalseE
        ELSE IF members(enum_in.name) = set(lset) THEN TrueE
        ELSE enum_in

\* EnumIn.reversed(self)
reversed(self) ==
    LET all_members == members(self.name)
        inst_members == set(self.args[1])
    IN  EnumIn(self.name, all_members \ inst_members, FALSE)

RECURSIVE CollectIns(_, _, _)
\* the loop of simplify_or copied to simplify_and with the union left in place
CollectIns_mut(args, ins, o) ==
    IF args = <<>> THEN ins
    ELSE LET arg == Head(args)
             lset == set(arg.args[1])
         IN  IF arg.op # "EnumIn" THEN CollectIns(Tail(args), ins, o)
             ELSE IF \E i \in 1..Len(ins) : ins[i].esym = arg.name
             THEN CollectIns(Tail(args),
                             [i \in 1..Len(ins) |->
                                 IF ins[i].esym # arg.name THEN ins[i]
                                 ELSE [esym |-> arg.name, lset |-> ins[i].lset \cup lset]],
                             o)
             ELSE CollectIns(Tail(args), Append(ins, [esym |-> arg.name, lset |-> lset]), o)

\* the dict ins of simplify_or (o = "or": union) and simplify_and (o = "and":
\* intersection) after the loop over the args, as the list of its items
\* (esym, set) in insertion order
CollectIns(args, ins, o) ==
    IF args = <<>> THEN ins
    ELSE LET arg == Head(args)
             lset == set(arg.args[1])
         IN  IF arg.op # "EnumIn" THEN CollectIns(Tail(args), ins, o)
             ELSE IF \E i \in 1..Len(ins) : ins[i].esym = arg.name
             THEN CollectIns(Tail(args),
                             [i \in 1..Len(ins) |->
                                 IF ins[i].esym # arg.name THEN ins[i]
                                 ELSE [esym |-> arg.name,
                                       lset |-> IF o = "or" THEN ins[i].lset \cup lset
                                                ELSE ins[i].lset \cap lset]],
                             o)
             ELSE CollectIns(Tail(args), Append(ins, [esym |-> arg.name, lset |-> lset]), o)

\* out_terms of simplify_or / simplify_and: the other args, then one EnumIn
\* per key of ins
OutTerms(args, o) ==
    LET ins == CollectIns(args, <<>>, o)
    IN  SelectSeq(args, LAMBDA a : a.op # "EnumIn")
            \o [i \in 1..Len(ins) |-> EnumIn(ins[i].esym, ins[i].lset, FALSE)]

simplify_or(or_inst) ==
    IF or_inst.op # "or" THEN or_inst
    ELSE LET out_terms == OutTerms(or_inst.args, "or")
         IN  IF Len(out_terms) = 1 THEN out_terms[1] ELSE Or(out_terms)

simplify_and(and_inst) ==
    IF and_inst.op # "and" THEN and_inst
    ELSE LET out_terms == OutTerms(and_inst.args, "and")
         IN  IF Len(out_terms) = 1 THEN out_terms[1] ELSE And(out_terms)

simplify_not(not_inst) ==
    IF not_inst.op # "not" THEN not_inst
    ELSE LET arg == not_inst.args[1]
         IN  IF arg.op = "EnumIn" THEN reversed(arg) ELSE not_inst

\* an operand of the caller: the sympy value and the arguments it was made from
Operand(v, e, A, n) == [val |-> v, esym |-> e, lset |-> A, nin |-> n]
OperandVals == [i \in 1..Len(operands) |-> operands[i].val]
\* a call and its arguments
Call(f, e, A, n, as) == [fn |-> f, esym |-> e, lset |-> A, nin |-> n, args |-> as]
NoValue == [op |-> "none", name |-> "", args |-> <<>>]

\* the transition graph is not in use
GraphIdle ==
    /\ transitions = [u \in Nodes |-> <<>>]
    /\ filter = NoEdges
    /\ succ = [u \in Nodes |-> <<>>]
    /\ pred = [u \in Nodes |-> NoPred]
    /\ source = NodeSeq[1]
    /\ nodes = <<>>
    /\ idx = 0
    /\ processed = {}
    /\ sound = [u \in {} |-> TRUE]

InitA ==
    /\ GraphIdle
    /\ LispIdle
    /\ RunIdle
    /\ pc = "alg_input"
    /\ operands = <<>>
    /\ call = Call("", "", {}, FALSE, <<>>)
    /\ ret = NoValue

\* the caller constructs EnumIn(esym, lset, nin=nin); an exception ends the run
NewEnumIn(esym, lset, nin) ==
    /\ pc = "alg_input"
    /\ Len(operands) < MaxOperands
    /\ call' = Call("EnumIn", esym, lset, nin, <<>>)
    /\ ret' = EnumIn(esym, lset, nin)
    /\ IF ret' = AttributeError
       THEN pc' = "alg_error" /\ UNCHANGED operands
       ELSE pc' = pc /\ operands' = Append(operands, Operand(ret', esym, lset, nin))
    /\ UNCHANGED <<graphVars, handle_reg, lisp, sexp, result>>
    /\ UNCHANGED runVars

\* the caller uses a plain boolean symbol as an operand
NewSymbol(n) ==
    /\ pc = "alg_input"
    /\ Len(operands) < MaxOperands
    /\ operands' = Append(operands, Operand(Sym(n), "", {}, FALSE))
    /\ UNCHANGED <<graphVars, pc, call, ret, handle_reg, lisp, sexp, result>>
    /\ UNCHANGED runVars

\* simplify_and(And(*operands))
CallSimplifyAnd ==
    /\ pc = "alg_input"
    /\ operands # <<>>
    /\ call' = Call("simplify_and", "", {}, FALSE, OperandVals)
    /\ ret' = simplify_and(And(OperandVals))
    /\ pc' = "alg_done"
    /\ UNCHANGED <<graphVars, operands, handle_reg, lisp, sexp, result>>
    /\ UNCHANGED runVars

\* simplify_or(Or(*operands))
CallSimplifyOr ==
    /\ pc = "alg_input"
    /\ operands # <<>>
    /\ call' = Call("simplify_or", "", {}, FALSE, OperandVals)
    /\ ret' = simplify_or(Or(OperandVals))
    /\ pc' = "alg_done"
    /\ UNCHANGED <<graphVars, operands, handle_reg, lisp, sexp, result>>
    /\ UNCHANGED runVars

\* simplify_not(Not(x)) of the operand x constructed last
CallSimplifyNot ==
    /\ pc = "alg_input"
    /\ operands # <<>>
    /\ call' = Call("simplify_not", "", {}, FALSE, <<OperandVals[Len(operands)]>>)
    /\ ret' = simplify_not(Not(OperandVals[Len(operands)]))
    /\ pc' = "alg_done"
    /\ UNCHANGED <<graphVars, operands, handle_reg, lisp, sexp, result>>
    /\ UNCHANGED runVars

\* x.reversed() of the EnumIn object x constructed last
CallReversed ==
    /\ pc = "alg_input"
    /\ operands # <<>>
    /\ OperandVals[Len(operands)].op = "EnumIn"
    /\ call' = Call("reversed", "", {}, FALSE, <<OperandVals[Len(operands)]>>)
    /\ ret' = reversed(OperandVals[Len(operands)])
    /\ pc' = "alg_done"
    /\ UNCHANGED <<graphVars, operands, handle_reg, lisp, sexp, result>>
    /\ UNCHANGED runVars

NextA ==
    \/ \E e \in EnumNames : \E A \in SUBSET members(e), n \in BOOLEAN : NewEnumIn(e, A, n)
    \/ \E n \in {Atoms[i] : i \in 1..Len(Atoms)} : NewSymbol(n)
    \/ CallSimplifyAnd
    \/ CallSimplifyOr
    \/ CallSimplifyNot
    \/ CallReversed

SpecA == InitA /\ [][NextA]_vars

(***************************************************************************)
(* Properties of the enum membership algebra.                              *)
(***************************************************************************)
\* C11: for every enum with member set D and domain symbol s, EnumIn(s, D)
\* is the constant true, EnumIn(s, {}) is the constant false, and EnumIn(s, A)
\* for a non-empty proper subset A of D is a predicate over s that carries
\* exactly the set A.
C11_EnumInConstruction ==
    (call.fn = "EnumIn" /\ ~call.nin) =>
        LET D == members(call.esym)
        IN  /\ call.lset = D => ret = TrueE
            /\ call.lset = {} => ret = FalseE
            /\ (call.lset # {} /\ call.lset # D) =>
                  /\ ret.op = "EnumIn"
                  /\ ret.name = call.esym
                  /\ set(ret.args[1]) = call.lset

\* all three cases have been constructed: the full set, the empty set and a
\* proper subset with more than one member
C11_Witness ==
    /\ Len(operands) = 3
    /\ \A i \in 1..3 : ~operands[i].nin /\ operands[i].esym = "E"
    /\ operands[1].lset = members("E") /\ operands[1].val = TrueE
    /\ operands[2].lset = {} /\ operands[2].val = FalseE
    /\ operands[3].lset = {1, 3} /\ operands[3].val.op = "EnumIn"
    /\ call.fn = "EnumIn" /\ call.lset = {1, 3}

\* the membership predicate over the enum e with the set A, in reduced form
Membership(e, A) ==
    IF A = {} THEN FalseE
    ELSE IF A = members(e) THEN TrueE
    ELSE [op |-> "EnumIn", name |-> e, args |-> <<FiniteSet(A)>>]

\* the operands of an expression: the args of an And / Or, otherwise the
\* expression itself
ResultOperands(e) == IF e.op \in {"and", "or"} THEN e.args ELSE <<e>>

\* C12: simplifying EnumIn(E, A) AND EnumIn(E, B) gives EnumIn(E, A \cap B)
\* and simplifying EnumIn(E, A) OR EnumIn(E, B) gives EnumIn(E, A \cup B),
\* reduced to false / true when the set is empty / the full domain; after
\* simplify_and or simplify_or over any number of operands at most one EnumIn
\* per enum symbol remains among the operands of the result.
C12_MergePerSymbol ==
    (pc = "alg_done" /\ call.fn \in {"simplify_and", "simplify_or"}) =>
        /\ \A e \in EnumNames :
              Cardinality({i \in 1..Len(ResultOperands(ret)) :
                              /\ ResultOperands(ret)[i].op = "EnumIn"
                              /\ ResultOperands(ret)[i].name = e}) <= 1
        /\ ( /\ Len(operands) = 2
             /\ operands[1].esym \in EnumNames
             /\ operands[1].esym = operands[2].esym
             /\ ~operands[1].nin /\ ~operands[2].nin ) =>
                ret = Membership(operands[1].esym,
                                 IF call.fn = "simplify_and"
                                 THEN operands[1].lset \cap operands[2].lset
                                 ELSE operands[1].lset \cup operands[2].lset)

\* two overlapping proper subsets of E were merged by simplify_and, next to
\* a predicate over the other enum
C12_Witness ==
    /\ pc = "alg_done" /\ call.fn = "simplify_and"
    /\ Len(operands) = 3
    /\ operands[1].esym = "E" /\ operands[1].lset = {1, 2} /\ ~operands[1].nin
    /\ operands[2].esym = "F" /\ operands[2].lset = {1} /\ ~operands[2].nin
    /\ operands[3].esym = "E" /\ operands[3].lset = {2, 3} /\ ~operands[3].nin
    /\ ret.op = "and" /\ Len(ret.args) = 2

\* C13: the negation of EnumIn(E, A) equals EnumIn(E, D \ A), whether it is
\* obtained by simplify_not / reversed() on an existing predicate or by
\* constructing EnumIn(E, A, nin=True), including the boundary cases A = {}
\* (the constant true) and A = D (the constant false); negating twice returns
\* the original predicate.
C13_NegationIsComplement ==
    /\ (call.fn = "EnumIn" /\ call.nin) =>
          ret = Membership(call.esym, members(call.esym) \ call.lset)
    /\ (call.fn \in {"simplify_not", "reversed"} /\ call.args[1].op = "EnumIn") =>
          /\ ret = Membership(call.args[1].name,
                              members(call.args[1].name) \ set(call.args[1].args[1]))
          /\ simplify_not(Not(ret)) = call.args[1]

(***************************************************************************)
(* Lisp evaluator (src/fbc/lisp/core.py).  A python value is a record      *)
(* [k, s, n, a, m]: its kind k and, by kind, its string s, its number n,    *)
(* its items a or its members m.  The tuple (op, arg, ...) has s = op and   *)
(* a = <<arg, ...>>.                                                        *)
(***************************************************************************)
PyVal(k, s, n, a, m) == [k |-> k, s |-> s, n |-> n, a |-> a, m |-> m]
Tuple(op, args) == PyVal("tuple", op, 0, args, {})
Num(i) == PyVal("number", "", i, <<>>, {})
Str(x) == PyVal("string", x, 0, <<>>, {})
Bool(b) == PyVal("boolean", IF b THEN "True" ELSE "False", 0, <<>>, {})
List(items) == PyVal("list", "", 0, items, {})
PySet(S) == PyVal("set", "", 0, <<>>, S)
\* an Enum object (src/fbc/algebra/core.py)
EnumObj(e) == PyVal("Enum", e, 0, <<>>, {})
\* Lisp.NOOP, the marker object
NOOP == PyVal("NOOP", "", 0, <<>>, {})
None == PyVal("None", "", 0, <<>>, {})
\* a raised exception, by the name of its class
Raise(e) == PyVal("raise", e, 0, <<>>, {})
IsRaise(v) == v.k = "raise"
\* the first exception among the values q, if any
FirstRaise(q) == q[CHOOSE i \in 1..Len(q) : IsRaise(q[i]) /\ \A j \in 1..(i - 1) : ~IsRaise(q[j])]
AnyRaise(q) == \E i \in 1..Len(q) : IsRaise(q[i])

is_atom(v) == v.k \in {"number", "string", "boolean"}
\* sexp_type(sexp) returns; otherwise it raises ValueError
HasSexpType(v) == v.k \in {"tuple", "list", "number", "string", "boolean"}
sexp_type(v) == IF v.k = "tuple" THEN v.s ELSE v.k

\* the operator tables of ExplOps (src/fbc/algebra/core.py), as their keys
binary_arith == <<"+", "-", "*", "/">>
unary_arith == <<"neg">>
binary_logic == <<"and", "or">>
unary_logic == <<"not">>
inequation == <<"lt", "le", "gt", "ge">>
equal == <<"==", "!=">>
relation == inequation \o equal

\* leafs of a handle: a collection of positions, or Lisp.ALL
Leafs(all, positions) == [all |-> all, idx |-> positions]
NoLeafs == Leafs(FALSE, {})
ALL == Leafs(TRUE, {})
\* idx in leafs, with the argument positions off by one
InLeafs_mut(i, leafs) == leafs.all \/ (i + 1) \in leafs.idx

\* idx in leafs
InLeafs(i, leafs) == leafs.all \/ i \in leafs.idx

\* a method of a Lisp subclass; body names what a method of the class Probe does
Fun(cls, name, body) == [cls |-> cls, name |-> name, body |-> body]
NoFun == Fun("", "", "")
\* an operation a handle is declared for: a tag, or a callable condition
TagOp(t) == [callable |-> FALSE, v |-> t]
CondOp(c) == [callable |-> TRUE, v |-> c]
TagOps(q) == [i \in 1..Len(q) |-> TagOp(q[i])]
\* an entry of Lisp.handle_reg: (ops, fun, default, leafs)
Decl(ops, fun, default, leafs) == [ops |-> ops, fun |-> fun, default |-> default, leafs |-> leafs]
\* an entry of sexp_handles / sexp_cond_handles
Handle(cond, fun, default, leafs) == [cond |-> cond, fun |-> fun, default |-> default, leafs |-> leafs]
NoHandle == Handle("", NoFun, None, NoLeafs)

\* Lisp.handle_reg once src/fbc/lisp/macros.py is imported
MacroDecls ==
    << Decl(TagOps(<<"lookup">>), Fun("Compiler", "handle_lookup", ""), None, ALL),
       Decl(TagOps(<<"call">>), Fun("Compiler", "handle_call_macro", ""), None, NoLeafs),
       Decl(TagOps(binary_arith), Fun("Compiler", "handle_binary_arith_ops", ""), NOOP, NoLeafs),
       Decl(TagOps(unary_arith), Fun("Compiler", "handle_unary_arith_ops", ""), NOOP, NoLeafs),
       Decl(TagOps(unary_logic), Fun("TypeResolver", "handle_unary_logic_ops", ""), None, NoLeafs),
       Decl(TagOps(binary_logic), Fun("TypeResolver", "handle_binary_logic_ops", ""), None, NoLeafs),
       Decl(TagOps(relation), Fun("TypeResolver", "handle_relation_ops", ""), None, NoLeafs),
       Decl(TagOps(binary_arith), Fun("TypeResolver", "handle_binary_arith_ops", ""), None, NoLeafs),
       Decl(TagOps(unary_arith), Fun("TypeResolver", "handle_unary_arith_ops", ""), None, NoLeafs),
       Decl(TagOps(<<"symbol">>), Fun("TypeResolver", "handle_symbol", ""), None, ALL),
       Decl(TagOps(<<"in", "nin">>), Fun("TypeResolver", "handle_enum", ""), None, ALL),
       Decl(<<CondOp("is_atom")>>, Fun("TypeResolver", "handle_atom", ""), None, NoLeafs),
       Decl(TagOps(inequation \o equal), Fun("ResolveEnums", "handle_relation_ops", ""), NOOP, NoLeafs),
       Decl(TagOps(<<"symbol">>), Fun("ResolveEnums", "handle_symbol", ""), None, ALL),
       Decl(TagOps(<<"not">>), Fun("Simplify", "handle_not", ""), None, NoLeafs),
       Decl(TagOps(binary_arith \o binary_logic), Fun("Simplify", "handle_transitive_binary", ""), None, NoLeafs),
       Decl(TagOps(<<"nin">>), Fun("Simplify", "handle_nin", ""), None, ALL),
       Decl(TagOps(<<"symbol", "in">>), Fun("Simplify", "ignore", ""), None, ALL),
       Decl(TagOps(relation \o binary_arith \o unary_arith \o binary_logic \o unary_logic),
            Fun("AlgInterpreter", "handle_ops", ""), None, NoLeafs),
       Decl(TagOps(<<"in">>), Fun("AlgInterpreter", "handle_in", ""), None, ALL),
       Decl(TagOps(<<"nin">>), Fun("AlgInterpreter", "handle_nin", ""), None, ALL),
       Decl(TagOps(<<"symbol">>), Fun("AlgInterpreter", "handle_symbol", ""), None, ALL),
       Decl(<<CondOp("is_atom_or_enum")>>, Fun("AlgInterpreter", "handle_atoms", ""), None, NoLeafs) >>

\* the method names in use, in the order inspect.getmembers sorts them
MethodOrder ==
    << "a_handle", "b_handle", "handle_atom", "handle_atoms", "handle_binary_arith_ops",
       "handle_binary_logic_ops", "handle_call_macro", "handle_enum", "handle_in",
       "handle_lookup", "handle_nin", "handle_not", "handle_ops", "handle_relation_ops",
       "handle_symbol",
       "handle_transitive_binary", "handle_unary_arith_ops", "handle_unary_logic_ops",
       "ignore" >>
Rank(name) == CHOOSE i \in 1..Len(MethodOrder) : MethodOrder[i] = name

RECURSIVE MemberOrder(_)
\* the entries I of handle_reg in the order _register_decorator_handles
\* registers them: by the name of the member, then by position in handle_reg
MemberOrder(I) ==
    IF I = {} THEN <<>>
    ELSE LET key(x) == Rank(handle_reg[x].fun.name) * (Len(handle_reg) + 1) + x
             i == CHOOSE x \in I : \A y \in I : key(x) <= key(y)
         IN  <<i>> \o MemberOrder(I \ {i})

RECURSIVE register_handle_mut(_, _, _)
\* register_handle where a tag registered twice keeps the later handle
register_handle_mut(self, d, k) ==
    IF k > Len(d.ops) \/ self.error THEN self
    ELSE LET op == d.ops[k]
         IN  IF op.callable
             THEN register_handle_mut(
                    [self EXCEPT !.sexp_cond_handles =
                        Append(@, Handle(op.v, d.fun, d.default, d.leafs))], d, k + 1)
             ELSE register_handle_mut(
                    [self EXCEPT !.sexp_handles =
                        [t \in DOMAIN self.sexp_handles \cup {op.v} |->
                            IF t = op.v THEN Handle("", d.fun, d.default, d.leafs)
                            ELSE self.sexp_handles[t]]], d, k + 1)

RECURSIVE register_handle(_, _, _)
\* register_handle(self, ops, fun, default, leafs) from the k-th of the ops;
\* registering a tag twice raises ValueError (error)
register_handle(self, d, k) ==
    IF k > Len(d.ops) \/ self.error THEN self
    ELSE LET op == d.ops[k]
         IN  IF op.callable
             THEN register_handle(
                    [self EXCEPT !.sexp_cond_handles =
                        Append(@, Handle(op.v, d.fun, d.default, d.leafs))], d, k + 1)
             ELSE IF op.v \in DOMAIN self.sexp_handles
             THEN [self EXCEPT !.error = TRUE]
             ELSE register_handle(
                    [self EXCEPT !.sexp_handles =
                        [t \in DOMAIN self.sexp_handles \cup {op.v} |->
                            IF t = op.v THEN Handle("", d.fun, d.default, d.leafs)
                            ELSE self.sexp_handles[t]]], d, k + 1)

RECURSIVE RegisterAll(_, _)
RegisterAll(self, order) ==
    IF order = <<>> THEN self
    ELSE RegisterAll(register_handle(self, handle_reg[Head(order)], 1), Tail(order))

\* Lisp.__init__ of the subclass cls, with _register_decorator_handles
NewLisp(cls) ==
    RegisterAll([cls |-> cls, sexp_handles |-> [t \in {} |-> NoHandle],
                 sexp_cond_handles |-> <<>>, error |-> FALSE],
                MemberOrder({i \in 1..Len(handle_reg) : handle_reg[i].fun.cls = cls}))

\* a condition of a condition handle, applied
CondHolds(cond, v) ==
    CASE cond = "is_atom" -> is_atom(v)
      [] cond = "is_atom_or_enum" -> is_atom(v) \/ v.k = "Enum"
      [] cond = "any" -> TRUE

\* the handle eval_step selects for a sexp: (op_handle, default, leafs)
Resolve(self, v) ==
    LET typ == sexp_type(v)
        cond_handles == SelectSeq(self.sexp_cond_handles, LAMBDA h : CondHolds(h.cond, v))
    IN  IF typ \in DOMAIN self.sexp_handles THEN self.sexp_handles[typ]
        ELSE IF Len(cond_handles) = 0 THEN NoHandle
        ELSE cond_handles[1]

(***************************************************************************)
(* The handles of the passes of src/fbc/lisp/macros.py.  A handle gets the *)
(* positional arguments pargs: the operator and the arguments of a tuple,  *)
(* or the atom.                                                            *)
(***************************************************************************)
RECURSIVE eval_step(_, _)

\* cls.eval(sexp): cls().eval_step(sexp)
LispEval(cls, v) ==
    LET self == NewLisp(cls)
    IN  IF self.error THEN Raise("ValueError") ELSE eval_step(self, v)

RECURSIVE Reduce(_, _, _)
\* reduce(lambda a, b: a <op> b, args) of ExplOps.binary_arith on ints, from acc
\* (the inputs of the model do not divide)
Reduce(op, acc, args) ==
    IF args = <<>> THEN acc
    ELSE Reduce(op,
                CASE op = "+" -> acc + Head(args).n
                  [] op = "-" -> acc - Head(args).n
                  [] op = "*" -> acc * Head(args).n,
                Tail(args))

RECURSIVE Join(_)
\* "".join(operands)
Join(opnds) == IF opnds = <<>> THEN "" ELSE Head(opnds).s \o Join(Tail(opnds))

\* Compiler.handle_binary_arith_ops(self, op, *operands)
Compiler_handle_binary_arith_ops(op, opnds) ==
    IF opnds = <<>> THEN Raise("TypeError")
    ELSE IF \E i \in 1..Len(opnds) : ~HasSexpType(opnds[i]) THEN Raise("ValueError")
    ELSE IF \A i \in 1..Len(opnds) : sexp_type(opnds[i]) = "number"
    THEN Num(Reduce(op, Head(opnds).n, Tail(opnds)))
    ELSE IF op = "+" /\ \A i \in 1..Len(opnds) : sexp_type(opnds[i]) = "string"
    THEN Str(Join(opnds))
    ELSE None

\* Compiler.handle_unary_arith_ops(self, op, lop)
Compiler_handle_unary_arith_ops(op, lop) ==
    IF ~HasSexpType(lop) THEN Raise("ValueError")
    ELSE IF sexp_type(lop) = "number" THEN Num(0 - lop.n)
    ELSE None

\* TypeResolver.handle_unary_logic_ops(self, _, ltype)
TypeResolver_handle_unary_logic_ops(ltype) ==
    IF ltype # Str("boolean") THEN Raise("ValueError") ELSE Str("boolean")

\* TypeResolver.handle_binary_logic_ops(self, op, *op_types)
TypeResolver_handle_binary_logic_ops(op_types) ==
    IF ~\A i \in 1..Len(op_types) : op_types[i] = Str("boolean") THEN Raise("ValueError")
    ELSE Str("boolean")

\* TypeResolver.handle_relation_ops without the comparison of the operand types
TypeResolver_handle_relation_ops_mut(ltype, rtype) == Str("boolean")

\* TypeResolver.handle_relation_ops(self, op, ltype, rtype)
TypeResolver_handle_relation_ops(ltype, rtype) ==
    IF ltype # rtype THEN Raise("ValueError") ELSE Str("boolean")

\* TypeResolver.handle_binary_arith_ops(self, op, *op_types)
TypeResolver_handle_binary_arith_ops(op_types) ==
    IF ~\A i \in 1..Len(op_types) : op_types[i] = Str("number") THEN Raise("ValueError")
    ELSE Str("number")

\* TypeResolver.handle_unary_arith_ops(self, op, ltype)
TypeResolver_handle_unary_arith_ops(ltype) ==
    IF ltype # Str("number") THEN Raise("ValueError") ELSE Str("number")

\* Simplify.handle_nin(self, _, sym, lset)
Simplify_handle_nin(sym, lset) ==
    IF sym.k = "Enum" THEN Tuple("in", <<sym, PySet(members(sym.s) \ lset.m)>>)
    ELSE Tuple("nin", <<sym, lset>>)

RECURSIVE CollectSets(_, _, _, _)
\* the dict ins (tag "in") or nins (tag "nin") of Simplify.simplify_and
\* (o = "and") and Simplify.simplify_or (o = "or") after the loop over the
\* terms, as the list of its items (sym, set) in insertion order
CollectSets(terms, acc, tag, o) ==
    IF terms = <<>> THEN acc
    ELSE LET term == Head(terms)
             sym == term.a[1]
             lset == term.a[2].m
             union == (tag = "in") = (o = "or")
         IN  IF sexp_type(term) # tag THEN CollectSets(Tail(terms), acc, tag, o)
             ELSE IF \E i \in 1..Len(acc) : acc[i].sym = sym
             THEN CollectSets(Tail(terms),
                              [i \in 1..Len(acc) |->
                                  IF acc[i].sym # sym THEN acc[i]
                                  ELSE [sym |-> sym,
                                        lset |-> IF union THEN acc[i].lset \cup lset
                                                 ELSE acc[i].lset \cap lset]],
                              tag, o)
             ELSE CollectSets(Tail(terms), Append(acc, [sym |-> sym, lset |-> lset]), tag, o)

\* d.get(sym, set()) of such a dict
GetSet(d, sym) ==
    IF \E i \in 1..Len(d) : d[i].sym = sym
    THEN d[CHOOSE i \in 1..Len(d) : d[i].sym = sym].lset
    ELSE {}
HasKey(d, sym) == \E i \in 1..Len(d) : d[i].sym = sym
\* set(ins.keys()).union(nins.keys()), as a list (the inputs of the model use
\* one enum, so that the order of iteration over this set plays no role)
Keys(ins, nins) ==
    [i \in 1..Len(ins) |-> ins[i].sym]
        \o SelectSeq([i \in 1..Len(nins) |-> nins[i].sym], LAMBDA y : ~HasKey(ins, y))

\* Simplify.simplify_and(self, terms): the list out_terms, or the TypeError
\* of the call self.handle_nin(('nin', sym, nins[sym])), which passes one
\* argument for three
Simplify_simplify_and(terms) ==
    IF \E i \in 1..Len(terms) : ~HasSexpType(terms[i]) THEN Raise("ValueError")
    ELSE LET ins == CollectSets(terms, <<>>, "in", "and")
             nins == CollectSets(terms, <<>>, "nin", "and")
             keys == Keys(ins, nins)
             others == SelectSeq(terms, LAMBDA t : sexp_type(t) \notin {"in", "nin"})
             merged(sym) == LET in_set == GetSet(ins, sym) \ GetSet(nins, sym)
                            IN  IF Cardinality(in_set) >= 1
                                THEN Tuple("in", <<sym, PySet(in_set)>>)
                                ELSE Bool(FALSE)
         IN  IF \E i \in 1..Len(keys) : ~HasKey(ins, keys[i]) /\ HasKey(nins, keys[i])
             THEN Raise("TypeError")
             ELSE List(others \o [i \in 1..Len(keys) |-> merged(keys[i])])

\* Simplify.simplify_or(self, terms), likewise
Simplify_simplify_or(terms) ==
    IF \E i \in 1..Len(terms) : ~HasSexpType(terms[i]) THEN Raise("ValueError")
    ELSE LET ins == CollectSets(terms, <<>>, "in", "or")
             nins == CollectSets(terms, <<>>, "nin", "or")
             keys == Keys(ins, nins)
             others == SelectSeq(terms, LAMBDA t : sexp_type(t) \notin {"in", "nin"})
             plain(sym) == HasKey(ins, sym) /\ ~HasKey(nins, sym)
             nin_set(sym) == GetSet(nins, sym) \ GetSet(ins, sym)
         IN  IF \E i \in 1..Len(keys) : ~plain(keys[i]) /\ Cardinality(nin_set(keys[i])) >= 1
             THEN Raise("TypeError")
             ELSE List(others \o [i \in 1..Len(keys) |->
                                     IF plain(keys[i])
                                     THEN Tuple("in", <<keys[i], PySet(GetSet(ins, keys[i]))>>)
                                     ELSE Bool(TRUE)])

RECURSIVE FlattenTerms(_, _)
\* the loop of handle_transitive_binary: terms of the same operator spliced in
FlattenTerms(op, terms) ==
    IF terms = <<>> THEN <<>>
    ELSE (IF sexp_type(Head(terms)) = op THEN Head(terms).a ELSE <<Head(terms)>>)
            \o FlattenTerms(op, Tail(terms))

\* Simplify.handle_transitive_binary(self, op, *terms)
Simplify_handle_transitive_binary(op, terms) ==
    IF \E i \in 1..Len(terms) : ~HasSexpType(terms[i]) THEN Raise("ValueError")
    ELSE LET flat == FlattenTerms(op, terms)
             res0 == IF op = "and" THEN Simplify_simplify_and(flat)
                     ELSE IF op = "or" THEN Simplify_simplify_or(flat)
                     ELSE List(flat)
         IN  IF IsRaise(res0) THEN res0
             ELSE IF Len(res0.a) = 0 THEN Raise("ValueError")
             ELSE IF Len(res0.a) = 1 THEN res0.a[1]
             ELSE Tuple(op, res0.a)

\* the relation that Simplify.handle_not puts for the negation of a relation
Negated(op) ==
    CASE op = "!=" -> "==" [] op = "==" -> "!="
      [] op = "lt" -> "ge" [] op = "le" -> "gt"
      [] op = "gt" -> "le" [] op = "ge" -> "lt"
      [] op = "in" -> "nin" [] op = "nin" -> "in"

\* Simplify.handle_not(self, _, term)
Simplify_handle_not(term) ==
    IF ~HasSexpType(term) THEN Raise("ValueError")
    ELSE LET typ == sexp_type(term)
             negs == [i \in 1..Len(term.a) |-> LispEval("Simplify", Tuple("not", <<term.a[i]>>))]
         IN  IF typ = "not" THEN term.a[1]
             ELSE IF typ \in {"and", "or"}
             THEN IF AnyRaise(negs) THEN FirstRaise(negs)
                  ELSE Tuple(IF typ = "and" THEN "or" ELSE "and", negs)
             ELSE IF typ \in {"!=", "==", "lt", "le", "gt", "ge", "in", "nin"}
             THEN Tuple(Negated(typ), <<term.a[1], term.a[2]>>)
             ELSE IF term.k = "boolean" THEN Bool(term.s = "False")
             ELSE IF typ = "symbol" \/ is_atom(term) THEN NOOP
             ELSE Raise("ValueError")

\* self.scope['ENUM'] of the environment: the names of the enums in scope
ENUM == EnumNames

\* is_enum_sexp(sexp, enums)
is_enum_sexp(v, enums) ==
    /\ v.k = "tuple"
    /\ Len(v.a) = 2
    /\ v.s = "symbol"
    /\ v.a[1].k = "string"
    /\ v.a[1].s \in enums

\* ineq(e, lit) for ineq of ExplOps.inequation or '!=', e a member (an int)
\* and lit a number; Python compares no int with a str by order, and finds
\* them unequal
Ineq(op, e, lit) ==
    CASE op = "lt" -> e < lit.n
      [] op = "le" -> e <= lit.n
      [] op = "gt" -> e > lit.n
      [] op = "ge" -> e >= lit.n
      [] op = "!=" -> lit.k # "number" \/ e # lit.n

\* resolve_relation_ops without the test that the literal of an equality is a
\* member of the enum
resolve_relation_ops_mut(op, sym_sexp, lit, lit_type) ==
    LET sym_name == sym_sexp.a[1].s
        sym_type == sym_sexp.a[2]
        enum == members(sym_name)
    IN  IF sym_type # lit_type THEN Raise("ValueError")
        ELSE IF op \in {"lt", "le", "gt", "ge", "!="}
        THEN IF op # "!=" /\ lit.k # "number" THEN Raise("TypeError")
             ELSE Tuple("in", <<EnumObj(sym_name), PySet({e \in enum : Ineq(op, e, lit)})>>)
        ELSE IF op = "=="
        THEN Tuple("in", <<EnumObj(sym_name), PySet({lit.n})>>)
        ELSE Raise("ValueError")

\* ResolveEnums.handle_relation_ops from the enum symbol sym_sexp and the
\* literal lit it found, with lit_type = TypeResolver.eval(lit)
resolve_relation_ops(op, sym_sexp, lit, lit_type) ==
    LET sym_name == sym_sexp.a[1].s
        sym_type == sym_sexp.a[2]
        enum == members(sym_name)
    IN  IF sym_type # lit_type THEN Raise("ValueError")
        ELSE IF op \in {"lt", "le", "gt", "ge", "!="}
        THEN IF op # "!=" /\ lit.k # "number" THEN Raise("TypeError")
             ELSE Tuple("in", <<EnumObj(sym_name), PySet({e \in enum : Ineq(op, e, lit)})>>)
        ELSE IF op = "=="
        THEN IF ~(lit.k = "number" /\ lit.n \in enum) THEN Raise("ValueError")
             ELSE Tuple("in", <<EnumObj(sym_name), PySet({lit.n})>>)
        ELSE Raise("ValueError")

\* ResolveEnums.handle_relation_ops(self, op, lop, rop)
ResolveEnums_handle_relation_ops(op, lop, rop) ==
    IF is_enum_sexp(lop, ENUM) /\ is_atom(rop)
    THEN resolve_relation_ops(op, lop, rop, LispEval("TypeResolver", rop))
    ELSE IF is_atom(lop) /\ is_enum_sexp(rop, ENUM)
    THEN resolve_relation_ops(op, rop, lop, LispEval("TypeResolver", lop))
    ELSE NOOP

(***************************************************************************)
(* AlgInterpreter (src/fbc/algebra/eval.py): a sexp as a sympy expression. *)
(***************************************************************************)
\* a sympy expression as a Python value
SymPy(e) == PyVal("sympy", "", 0, <<e>>, {})
Eq(x, y) == [op |-> "Eq", name |-> "", args |-> <<x, y>>]
Ne(x, y) == [op |-> "Ne", name |-> "", args |-> <<x, y>>]

\* AlgInterpreter.handle_symbol(self, _, sym, typ) for a name sym
AlgInterpreter_handle_symbol(sym, typ) == SymPy(Sym(sym.s))

\* AlgInterpreter.handle_atoms(self, a)
AlgInterpreter_handle_atoms(a) ==
    CASE a.k = "number" -> SymPy(Integer(a.n))
      [] a.k = "boolean" -> a
      [] a.k = "string" -> SymPy(Sym(a.s))
      [] a.k = "Enum" -> SymPy(Sym(a.s))
      [] OTHER -> Raise("ValueError")

\* the sympy symbol handle_in and handle_nin make of sym_sexp, no Enum
AlgSymbol(sym_sexp) ==
    IF sym_sexp.k = "tuple"
    THEN IF Len(sym_sexp.a) # 2 THEN Raise("TypeError")
         ELSE AlgInterpreter_handle_symbol(sym_sexp.a[1], sym_sexp.a[2])
    ELSE AlgInterpreter_handle_atoms(sym_sexp)

\* EnumIn(enum.var, lset, nin=nin) of handle_in and handle_nin; its exception
\* propagates
AlgEnumIn(e, S, nin) ==
    IF EnumIn(e, S, nin) = AttributeError THEN Raise("AttributeError")
    ELSE SymPy(EnumIn(e, S, nin))

\* AlgInterpreter.handle_in(self, _, sym_sexp, lset): the literals of lset
\* are evaluated by handle_atoms
AlgInterpreter_handle_in(sym_sexp, lset) ==
    IF sym_sexp.k = "Enum"
    THEN AlgEnumIn(sym_sexp.s, lset.m, FALSE)
    ELSE IF IsRaise(AlgSymbol(sym_sexp)) THEN AlgSymbol(sym_sexp)
    ELSE SymPy(Or([i \in 1..Cardinality(lset.m) |->
                      Eq(AlgSymbol(sym_sexp).a[1], Integer(SortedSeq(lset.m)[i]))]))

\* AlgInterpreter.handle_nin(self, _, sym_sexp, lset)
AlgInterpreter_handle_nin(sym_sexp, lset) ==
    IF sym_sexp.k = "Enum"
    THEN AlgEnumIn(sym_sexp.s, lset.m, TRUE)
    ELSE IF IsRaise(AlgSymbol(sym_sexp)) THEN AlgSymbol(sym_sexp)
    ELSE SymPy(Or([i \in 1..Cardinality(lset.m) |->
                      Ne(AlgSymbol(sym_sexp).a[1], Integer(SortedSeq(lset.m)[i]))]))

\* AlgInterpreter.handle_ops(self, op, *args): the node of AlgOps
AlgInterpreter_handle_ops(op, args) ==
    LET es == [i \in 1..Len(args) |-> args[i].a[1]]
    IN  CASE op = "and" -> SymPy(And(es))
          [] op = "or" -> SymPy(Or(es))
          [] op = "not" -> SymPy(Not(es[1]))
          [] op = "==" -> SymPy(Eq(es[1], es[2]))
          [] op = "!=" -> SymPy(Ne(es[1], es[2]))
          [] OTHER -> SymPy([op |-> op, name |-> "", args |-> es])

\* a method of the class Probe: it returns its name with the arguments it
\* got, Lisp.NOOP, or None
ProbeBody(fun, pargs) ==
    CASE fun.body = "args" -> Tuple(fun.name, pargs)
      [] fun.body = "NOOP" -> NOOP
      [] fun.body = "None" -> None

\* op_handle(*pargs); a call with the wrong number of arguments raises TypeError
ApplyHandle(fun, pargs) ==
    LET op == pargs[1].s
        args == Tail(pargs)
        wrong(n) == Len(pargs) # n
    IN  CASE fun.cls = "Probe" -> ProbeBody(fun, pargs)
          [] fun.cls = "Compiler" /\ fun.name = "handle_binary_arith_ops" ->
                Compiler_handle_binary_arith_ops(op, args)
          [] fun.cls = "Compiler" /\ fun.name = "handle_unary_arith_ops" ->
                IF wrong(2) THEN Raise("TypeError")
                ELSE Compiler_handle_unary_arith_ops(op, pargs[2])
          [] fun.cls = "TypeResolver" /\ fun.name = "handle_unary_logic_ops" ->
                IF wrong(2) THEN Raise("TypeError")
                ELSE TypeResolver_handle_unary_logic_ops(pargs[2])
          [] fun.cls = "TypeResolver" /\ fun.name = "handle_binary_logic_ops" ->
                TypeResolver_handle_binary_logic_ops(args)
          [] fun.cls = "TypeResolver" /\ fun.name = "handle_relation_ops" ->
                IF wrong(3) THEN Raise("TypeError")
                ELSE TypeResolver_handle_relation_ops(pargs[2], pargs[3])
          [] fun.cls = "TypeResolver" /\ fun.name = "handle_binary_arith_ops" ->
                TypeResolver_handle_binary_arith_ops(args)
          [] fun.cls = "TypeResolver" /\ fun.name = "handle_unary_arith_ops" ->
                IF wrong(2) THEN Raise("TypeError")
                ELSE TypeResolver_handle_unary_arith_ops(pargs[2])
          [] fun.cls = "TypeResolver" /\ fun.name = "handle_symbol" ->
                IF wrong(3) THEN Raise("TypeError")
                ELSE pargs[3]
          [] fun.cls = "TypeResolver" /\ fun.name = "handle_enum" -> Str("boolean")
          [] fun.cls = "TypeResolver" /\ fun.name = "handle_atom" ->
                IF wrong(1) THEN Raise("TypeError")
                ELSE Str(sexp_type(pargs[1]))
          [] fun.cls = "Simplify" /\ fun.name = "handle_not" ->
                IF wrong(2) THEN Raise("TypeError")
                ELSE Simplify_handle_not(pargs[2])
          [] fun.cls = "Simplify" /\ fun.name = "handle_transitive_binary" ->
                Simplify_handle_transitive_binary(op, args)
          [] fun.cls = "Simplify" /\ fun.name = "handle_nin" ->
                IF wrong(3) THEN Raise("TypeError")
                ELSE Simplify_handle_nin(pargs[2], pargs[3])
          [] fun.cls = "Simplify" /\ fun.name = "ignore" -> NOOP
          [] fun.cls = "ResolveEnums" /\ fun.name = "handle_relation_ops" ->
                IF wrong(3) THEN Raise("TypeError")
                ELSE ResolveEnums_handle_relation_ops(op, pargs[2], pargs[3])
          [] fun.cls = "ResolveEnums" /\ fun.name = "handle_symbol" -> NOOP
          [] fun.cls = "AlgInterpreter" /\ fun.name = "handle_ops" ->
                AlgInterpreter_handle_ops(op, args)
          [] fun.cls = "AlgInterpreter" /\ fun.name = "handle_in" ->
                IF wrong(3) THEN Raise("TypeError")
                ELSE AlgInterpreter_handle_in(pargs[2], pargs[3])
          [] fun.cls = "AlgInterpreter" /\ fun.name = "handle_nin" ->
                IF wrong(3) THEN Raise("TypeError")
                ELSE AlgInterpreter_handle_nin(pargs[2], pargs[3])
          [] fun.cls = "AlgInterpreter" /\ fun.name = "handle_symbol" ->
                IF wrong(3) THEN Raise("TypeError")
                ELSE AlgInterpreter_handle_symbol(pargs[2], pargs[3])
          [] fun.cls = "AlgInterpreter" /\ fun.name = "handle_atoms" ->
                IF wrong(1) THEN Raise("TypeError")
                ELSE AlgInterpreter_handle_atoms(pargs[1])

\* the end of Lisp.eval_step, from the result res of the handle: Lisp.NOOP
\* gives the sexp with its evaluated arguments, then None gives the default
eval_result(h, unaltered, res) ==
    LET res1 == IF res = NOOP THEN unaltered ELSE res
    IN  IF res1 = None THEN h.default ELSE res1

\* the branch of Lisp.eval_step for a tuple, an atom or a list, from the
\* evaluated arguments; an exception raised by the evaluation of an argument
\* propagates
eval_apply(v, h, eval_args, unaltered) ==
    IF AnyRaise(eval_args) THEN FirstRaise(eval_args)
    ELSE IF v.k = "list" THEN List(eval_args)
    ELSE eval_result(h, unaltered,
                     IF h.fun = NoFun THEN unaltered
                     ELSE ApplyHandle(h.fun, IF v.k = "tuple" THEN <<Str(v.s)>> \o eval_args
                                             ELSE <<v>>))

\* the evaluation of the arguments of a tuple that are no leafs, and of the
\* items of a list
eval_args_step(self, v, h, eval_args) ==
    eval_apply(v, h, eval_args, IF v.k = "tuple" THEN Tuple(v.s, eval_args) ELSE v)

\* Lisp.eval_step(self, sexp), from the handle h it selected
eval_handle(self, v, h) ==
    eval_args_step(self, v, h,
                   [i \in 1..Len(v.a) |->
                       IF v.k = "tuple" /\ InLeafs(i - 1, h.leafs) THEN v.a[i]
                       ELSE eval_step(self, v.a[i])])

\* Lisp.eval_step(self, sexp)
eval_step(self, v) ==
    IF ~HasSexpType(v) THEN Raise("ValueError")
    ELSE eval_handle(self, v, Resolve(self, v))

(***************************************************************************)
(* Evaluation of a sexp by a Lisp subclass with handles declared by         *)
(* decorators (class Probe), after the import of the passes.                *)
(***************************************************************************)
NoLisp == [cls |-> "", sexp_handles |-> [t \in {} |-> NoHandle],
           sexp_cond_handles |-> <<>>, error |-> FALSE]

\* the methods, operations, leafs, defaults and bodies of the class Probe
ProbeNames == {"a_handle", "b_handle"}
ProbeOps == {TagOp("f"), TagOp("g"), CondOp("is_atom"), CondOp("any")}
ProbeLeafs == {NoLeafs, Leafs(FALSE, {0}), ALL}
ProbeDefaults == {None, NOOP}
ProbeBodies == {"args", "NOOP", "None"}
\* the sexps handed to Probe.eval
ProbeTrees ==
    { Num(1),
      Tuple("f", <<Num(1), Num(2)>>),
      Tuple("f", <<Tuple("g", <<Num(1)>>), Tuple("g", <<Num(2)>>)>>),
      Tuple("h", <<Tuple("f", <<Num(1)>>), Str("a")>>),
      Tuple("g", <<Tuple("f", <<Tuple("g", <<Num(1)>>), Num(2)>>)>>),
      List(<<Num(1), Tuple("f", <<Num(1)>>)>>) }

InitL ==
    /\ GraphIdle
    /\ AlgIdle
    /\ RunIdle
    /\ pc = "declare"
    /\ handle_reg = MacroDecls
    /\ lisp = NoLisp
    /\ sexp = None
    /\ result = None

\* @Lisp.handle(op, default=default, leafs=leafs) on a method of Probe
Declare(name, op, default, leafs, body) ==
    /\ pc = "declare"
    /\ ~\E i \in 1..Len(handle_reg) :
           handle_reg[i].fun.cls = "Probe" /\ handle_reg[i].fun.name = name
    /\ handle_reg' = Append(handle_reg, Decl(<<op>>, Fun("Probe", name, body), default, leafs))
    /\ UNCHANGED <<graphVars, operands, call, ret, pc, lisp, sexp, result>>
    /\ UNCHANGED runVars

\* Probe.eval(t): the instance is made, its handles are registered, and
\* eval_step(t) runs
ProbeEval(t) ==
    /\ pc = "declare"
    /\ lisp' = NewLisp("Probe")
    /\ sexp' = t
    /\ IF lisp'.error
       THEN result' = Raise("ValueError") /\ pc' = "register_error"
       ELSE result' = eval_step(lisp', t) /\ pc' = "evaluated"
    /\ UNCHANGED <<graphVars, operands, call, ret, handle_reg>>
    /\ UNCHANGED runVars

NextL ==
    \/ \E name \in ProbeNames, op \in ProbeOps, default \in ProbeDefaults,
          leafs \in ProbeLeafs, body \in ProbeBodies : Declare(name, op, default, leafs, body)
    \/ \E t \in ProbeTrees : ProbeEval(t)

SpecL == InitL /\ [][NextL]_vars

(***************************************************************************)
(* The passes Compiler, Simplify and TypeResolver applied to a sexp, and    *)
(* LispEnv.verify_sexp (src/fbc/lisp/env.py).                               *)
(***************************************************************************)
\* nesting depth of the operators wrapped around a leaf
MaxDepth == 2

SymbolSexp(n, t) == Tuple("symbol", <<Str(n), Str(t)>>)
InSexp(e, S) == Tuple("in", <<EnumObj(e), PySet(S)>>)
\* the literals, symbols and membership predicates a sexp is built from
Leaves ==
    { Num(1), Str("a"), SymbolSexp("x", "number"), SymbolSexp("s", "string"),
      SymbolSexp("b", "boolean"), InSexp("E", {1}) }
\* the second operand of a binary operator: a predicate beside a logic
\* operator, a literal or a symbol beside the others
Others(op) ==
    IF op = "and" THEN {SymbolSexp("b", "boolean"), InSexp("E", {1, 2})}
    ELSE {Num(2), Str("a"), SymbolSexp("x", "number")}
UnaryOps == {"not", "neg"}
BinaryOps == {"+", "==", "and"}
Passes == {"Compiler", "Simplify", "TypeResolver"}
\* the passes among the macros of an environment (zofar_env); TypeResolver
\* only runs in verify_sexp
Macros == {"Compiler", "Simplify"}

RECURSIVE Depth(_)
Depth(t) ==
    IF t \in Leaves \cup Others("and") \cup Others("+") THEN 0
    ELSE LET d == {Depth(t.a[i]) : i \in 1..Len(t.a)}
         IN  1 + (CHOOSE x \in d : \A y \in d : y <= x)

InitM ==
    /\ GraphIdle
    /\ AlgIdle
    /\ RunIdle
    /\ pc = "sexp_input"
    /\ handle_reg = MacroDecls
    /\ lisp = NoLisp
    /\ sexp \in Leaves
    /\ result = None

\* the parser puts a unary operator around the sexp
WrapUnary(op) ==
    /\ pc = "sexp_input"
    /\ Depth(sexp) < MaxDepth
    /\ sexp' = Tuple(op, <<sexp>>)
    /\ UNCHANGED <<graphVars, operands, call, ret, pc, handle_reg, lisp, result>>
    /\ UNCHANGED runVars

\* the parser puts a binary operator around the sexp and another operand
WrapBinary(op, other, left) ==
    /\ pc = "sexp_input"
    /\ Depth(sexp) < MaxDepth
    /\ sexp' = IF left THEN Tuple(op, <<other, sexp>>) ELSE Tuple(op, <<sexp, other>>)
    /\ UNCHANGED <<graphVars, operands, call, ret, pc, handle_reg, lisp, result>>
    /\ UNCHANGED runVars

\* cls.eval(sexp) of a pass
PassEval(cls) ==
    /\ pc \in {"sexp_input", "fed"}
    /\ lisp' = NewLisp(cls)
    /\ result' = eval_step(lisp', sexp)
    /\ pc' = "evaluated"
    /\ UNCHANGED <<graphVars, operands, call, ret, handle_reg, sexp>>
    /\ UNCHANGED runVars

\* LispEnv.apply_macros: sexp = macro.eval(sexp, self.scope), the result of
\* one pass is the sexp of the next
Feed ==
    /\ pc = "evaluated"
    /\ lisp.cls \in Macros
    /\ ~IsRaise(result)
    /\ sexp' = result
    /\ pc' = "fed"
    /\ UNCHANGED <<graphVars, operands, call, ret, handle_reg, lisp, result>>
    /\ UNCHANGED runVars

\* LispEnv.verify_sexp(sexp), from typ = TypeResolver.eval(sexp)
verify_sexp(typ) ==
    IF IsRaise(typ) THEN typ
    ELSE IF typ # Str("boolean") THEN Raise("ValueError")
    ELSE Bool(TRUE)

\* LispEnv.eval after the macros: verify_sexp(sexp) raises, or the run goes
\* on to convert_sexp(sexp)
Verify ==
    /\ pc \in {"sexp_input", "fed"}
    /\ lisp' = NewLisp("TypeResolver")
    /\ result' = verify_sexp(eval_step(lisp', sexp))
    /\ pc' = IF IsRaise(result') THEN "rejected" ELSE "convert"
    /\ UNCHANGED <<graphVars, operands, call, ret, handle_reg, sexp>>
    /\ UNCHANGED runVars

NextM ==
    \/ \E op \in UnaryOps : WrapUnary(op)
    \/ \E op \in BinaryOps : \E other \in Others(op), left \in BOOLEAN : WrapBinary(op, other, left)
    \/ \E cls \in Passes : PassEval(cls)
    \/ Feed
    \/ Verify

SpecM == InitM /\ [][NextM]_vars

(***************************************************************************)
(* Properties of the evaluator and of the passes.                          *)
(***************************************************************************)
\* the sexp passes LispEnv.verify_sexp: TypeResolver gives it the kind boolean
WellTyped(t) == eval_step(NewLisp("TypeResolver"), t) = Str("boolean")

\* C14: boolean simplification is idempotent: for every well-typed boolean
\* tree t, the Simplify pass applied to Simplify(t) returns a tree equal to
\* Simplify(t)
C14_SimplifyIdempotent ==
    (pc = "evaluated" /\ lisp.cls = "Simplify" /\ WellTyped(sexp) /\ ~IsRaise(result))
        => eval_step(lisp, result) = result

\* the child at position i (from 0) is a leaf of the handle h
DeclaredLeaf(h, i) == h.leafs = ALL \/ i \in h.leafs.idx

\* what the handle h of the node v is to receive for the children of v: a
\* leaf as it stands in v, any other child evaluated
Received(self, v, h) ==
    [i \in 1..Len(v.a) |->
        IF DeclaredLeaf(h, i - 1) THEN v.a[i] ELSE eval_step(self, v.a[i])]

\* C15: eval_step evaluates every child of an operator node before it
\* invokes the handler of the node, except the children at the positions the
\* handler declares as leafs, which the handler gets as they stand in the
\* input (with Lisp.ALL no child is evaluated); a node with no handler is
\* returned rebuilt from its operator and its evaluated children
C15_ChildrenBeforeHandler ==
    (pc = "evaluated" /\ sexp.k = "tuple") =>
        LET h == Resolve(lisp, sexp)
            received == Received(lisp, sexp, h)
        IN  /\ h.fun = NoFun => result = Tuple(sexp.s, received)
            /\ h.fun.body = "args" => result = Tuple(h.fun.name, <<Str(sexp.s)>> \o received)
            /\ (h.fun.body = "args" /\ h.leafs = ALL) =>
                   result = Tuple(h.fun.name, <<Str(sexp.s)>> \o sexp.a)

\* a handler with leafs=[0] got its first child as it stood, though its
\* evaluation would have changed it, and its second child evaluated
C15_Witness ==
    /\ pc = "evaluated"
    /\ sexp.k = "tuple"
    /\ Len(sexp.a) = 2
    /\ Resolve(lisp, sexp).fun.body = "args"
    /\ Resolve(lisp, sexp).leafs = Leafs(FALSE, {0})
    /\ eval_step(lisp, sexp.a[1]) # sexp.a[1]
    /\ result.a[2] = sexp.a[1]
    /\ result.a[3] = eval_step(lisp, sexp.a[2])
    /\ result.a[3] # sexp.a[2]

RECURSIVE HasNOOP(_)
\* the marker Lisp.NOOP is the value v or occurs in it
HasNOOP(v) == v = NOOP \/ \E i \in 1..Len(v.a) : HasNOOP(v.a[i])

\* the handler selected for the node returned Lisp.NOOP: the node comes back
\* rebuilt from its operator and its evaluated children, an atom as it is
NoopRebuilds ==
    (pc = "evaluated" /\ sexp.k # "list" /\ Resolve(lisp, sexp).fun.body = "NOOP") =>
        result = IF sexp.k = "tuple"
                 THEN Tuple(sexp.s, Received(lisp, sexp, Resolve(lisp, sexp)))
                 ELSE sexp

\* C16: whenever the handler selected for a node returns Lisp.NOOP, eval_step
\* returns the node rebuilt from its operator and its evaluated children (an
\* atom as it is), and the marker Lisp.NOOP itself never appears in the
\* output of an evaluation, neither as the result nor as a child of it
C16_NoopNeverReturned ==
    /\ NoopRebuilds
    /\ pc = "evaluated" => ~HasNOOP(result)

\* the declarations of the class cls, as positions of handle_reg, that name
\* the tag of v, and those with a condition that accepts v
TagDecls(cls, v) ==
    {i \in 1..Len(handle_reg) :
        /\ handle_reg[i].fun.cls = cls
        /\ \E k \in 1..Len(handle_reg[i].ops) : handle_reg[i].ops[k] = TagOp(sexp_type(v))}
CondDecls(cls, v) ==
    {i \in 1..Len(handle_reg) :
        /\ handle_reg[i].fun.cls = cls
        /\ \E k \in 1..Len(handle_reg[i].ops) :
              handle_reg[i].ops[k].callable /\ CondHolds(handle_reg[i].ops[k].v, v)}

\* the handler the resolution order names for v: the one declared for its
\* tag, else the first declared whose condition accepts v, else none
DeclaredFun(cls, v) ==
    IF TagDecls(cls, v) # {} THEN handle_reg[CHOOSE i \in TagDecls(cls, v) : TRUE].fun
    ELSE IF CondDecls(cls, v) # {}
    THEN handle_reg[CHOOSE i \in CondDecls(cls, v) : \A j \in CondDecls(cls, v) : i <= j].fun
    ELSE NoFun

\* C17: for every node eval_step uses the handler registered for the exact
\* operator tag of the node when there is one; otherwise the first handler
\* with a condition, in the order the handlers were declared in the pass,
\* whose condition accepts the node; otherwise no handler
C17_ResolutionOrder ==
    (pc = "evaluated" /\ sexp.k # "list") =>
        Resolve(lisp, sexp).fun = DeclaredFun(lisp.cls, sexp)

RECURSIVE Plain(_)
\* a tree of literals, symbols and operators, without sets, enums or markers
Plain(t) ==
    \/ is_atom(t)
    \/ t.k = "tuple" /\ \A i \in 1..Len(t.a) : Plain(t.a[i])

RECURSIVE Fold(_)
\* constant folding as stated: an arithmetic node whose folded operands are
\* all number literals (for '+': all string literals) is its value, any
\* other node is the node with its folded children
Fold(t) ==
    IF t.k # "tuple" THEN t
    ELSE LET kids == [i \in 1..Len(t.a) |-> Fold(t.a[i])]
             all(kind) == \A i \in 1..Len(kids) : kids[i].k = kind
         IN  IF t.s \in {"+", "-", "*"} /\ all("number")
             THEN Num(Reduce(t.s, kids[1].n, Tail(kids)))
             ELSE IF t.s = "+" /\ all("string") THEN Str(Join(kids))
             ELSE IF t.s = "neg" /\ Len(kids) = 1 /\ all("number") THEN Num(0 - kids[1].n)
             ELSE Tuple(t.s, kids)

\* C18: the Compiler pass replaces an arithmetic node by its value when all
\* of its operands are number literals (for '+': all string literals), and
\* otherwise returns the node unchanged apart from its folded children, as
\* ('+', ('symbol','x','number'), ('+', 1, 2)) becomes
\* ('+', ('symbol','x','number'), 3)
C18_ConstantFolding ==
    (pc = "evaluated" /\ lisp.cls = "Compiler" /\ Plain(sexp)) => result = Fold(sexp)

\* the operators by the kind of operands they take
RelationOps == {"lt", "le", "gt", "ge", "==", "!="}
LogicOps == {"and", "or", "not"}
ArithOps == {"+", "-", "*", "/", "neg"}

\* the kind of a tree: of a literal its type, of a symbol its declared kind,
\* boolean for predicates, number for arithmetic
Kind(t) ==
    IF is_atom(t) THEN t.k
    ELSE IF t.k # "tuple" THEN "none"
    ELSE IF t.s = "symbol" THEN t.a[2].s
    ELSE IF t.s \in RelationOps \cup LogicOps \cup {"in", "nin"} THEN "boolean"
    ELSE IF t.s \in ArithOps THEN "number"
    ELSE "none"

RECURSIVE HasTypeError(_)
\* the tree contains a relation whose operands differ in kind, a logic
\* operator with an operand that is not boolean, or an arithmetic operator
\* with an operand that is not a number
HasTypeError(t) ==
    /\ t.k = "tuple"
    /\ t.s \in RelationOps \cup LogicOps \cup ArithOps
    /\ \/ \E i \in 1..Len(t.a) : HasTypeError(t.a[i])
       \/ t.s \in RelationOps /\ \E i, j \in 1..Len(t.a) : Kind(t.a[i]) # Kind(t.a[j])
       \/ t.s \in LogicOps /\ \E i \in 1..Len(t.a) : Kind(t.a[i]) # "boolean"
       \/ t.s \in ArithOps /\ \E i \in 1..Len(t.a) : Kind(t.a[i]) # "number"

\* C19: type checking raises an error on every tree that contains a relation
\* whose two operands have different kinds, a logic operator with a
\* non-boolean operand, or an arithmetic operator with a non-number operand;
\* and a condition whose overall kind is not boolean is rejected before it is
\* converted to an algebra expression
C19_TypeErrorsRaise ==
    /\ (pc = "evaluated" /\ lisp.cls = "TypeResolver" /\ HasTypeError(sexp)) => IsRaise(result)
    /\ (pc \in {"convert", "rejected"} /\ (HasTypeError(sexp) \/ Kind(sexp) # "boolean")) =>
           pc = "rejected" /\ IsRaise(result)

\* verify_sexp rejected a negation around a number symbol compared with a
\* string literal
C19_Witness ==
    /\ pc = "rejected"
    /\ sexp = Tuple("not", <<Tuple("==", <<SymbolSexp("x", "number"), Str("a")>>)>>)
    /\ IsRaise(result)

\* C20: type checking accepts '+' applied to two operands of kind string as
\* concatenation, with the kind string as result, instead of raising a type
\* error, also when an operand is a symbol of kind string that constant
\* folding could not fold away
C20_StringConcatAccepted ==
    (/\ pc = "evaluated"
     /\ lisp.cls = "TypeResolver"
     /\ sexp.k = "tuple"
     /\ sexp.s = "+"
     /\ Len(sexp.a) = 2
     /\ Kind(sexp.a[1]) = "string"
     /\ Kind(sexp.a[2]) = "string") => result = Str("string")

(***************************************************************************)
(* LispEnv.eval of the environment of zofar_env (src/fbc/zofar/module.py): *)
(* the macros Compiler, Simplify, ResolveEnums in the order of the list,   *)
(* then verify_sexp, on relations between a symbol and a literal.          *)
(***************************************************************************)
\* the largest literal of the relations
MaxLit == 4

\* macros=[Compiler, Simplify, ResolveEnums] of zofar_env
EnvMacros == <<"Compiler", "Simplify", "ResolveEnums">>

\* the symbols of the relations: enum symbols declared number or string, a
\* symbol that names no enum
RelSymbols ==
    { SymbolSexp("E", "number"), SymbolSexp("F", "number"),
      SymbolSexp("E", "string"), SymbolSexp("y", "number") }
RelLiterals == {Num(i) : i \in 0..MaxLit} \cup {Str("a")}
RelOps == {"lt", "le", "gt", "ge", "==", "!="}
\* the relations conjoined with the first one
AndOps == {"==", "lt"}

InitR ==
    /\ GraphIdle
    /\ AlgIdle
    /\ macro_idx = 0
    /\ batch = <<>>
    /\ pool = <<>>
    /\ result_batch = <<>>
    /\ pc = "sexp_input"
    /\ handle_reg = MacroDecls
    /\ lisp = NoLisp
    /\ sexp \in RelSymbols
    /\ result = None

\* the parser's tree of `symbol op literal`, or of `literal op symbol`
Relate(op, lit, left) ==
    /\ pc = "sexp_input"
    /\ sexp \in RelSymbols
    /\ sexp' = IF left THEN Tuple(op, <<lit, sexp>>) ELSE Tuple(op, <<sexp, lit>>)
    /\ UNCHANGED <<graphVars, operands, call, ret, pc, handle_reg, lisp, result>>
    /\ UNCHANGED runVars

\* the parser's tree of `relation and symbol op literal`, on the symbol of
\* the relation
Conjoin(op, lit) ==
    /\ pc = "sexp_input"
    /\ sexp.s \in RelOps
    /\ sexp.a[1] \in RelSymbols
    /\ sexp' = Tuple("and", <<sexp, Tuple(op, <<sexp.a[1], lit>>)>>)
    /\ UNCHANGED <<graphVars, operands, call, ret, pc, handle_reg, lisp, result>>
    /\ UNCHANGED runVars

\* one turn of the loop of LispEnv.apply_macros: sexp = macro.eval(sexp,
\* self.scope); an exception leaves LispEnv.eval
apply_macros ==
    /\ pc \in {"sexp_input", "macros"}
    /\ macro_idx < Len(EnvMacros)
    /\ lisp' = NewLisp(EnvMacros[macro_idx + 1])
    /\ result' = eval_step(lisp', sexp)
    /\ macro_idx' = macro_idx + 1
    /\ sexp' = IF IsRaise(result') THEN sexp ELSE result'
    /\ pc' = IF IsRaise(result') THEN "rejected" ELSE "macros"
    /\ UNCHANGED <<graphVars, operands, call, ret, handle_reg, batch, pool, result_batch>>

\* self.verify_sexp(sexp) of LispEnv.eval, after apply_macros returned
env_verify_sexp ==
    /\ pc = "macros"
    /\ macro_idx = Len(EnvMacros)
    /\ lisp' = NewLisp("TypeResolver")
    /\ result' = verify_sexp(eval_step(lisp', sexp))
    /\ pc' = IF IsRaise(result') THEN "rejected" ELSE "convert"
    /\ UNCHANGED <<graphVars, operands, call, ret, handle_reg, sexp>>
    /\ UNCHANGED runVars

NextR ==
    \/ \E op \in RelOps : \E lit \in RelLiterals, left \in BOOLEAN : Relate(op, lit, left)
    \/ \E op \in AndOps : \E lit \in RelLiterals : Conjoin(op, lit)
    \/ apply_macros
    \/ env_verify_sexp

SpecR == InitR /\ [][NextR]_vars

(***************************************************************************)
(* Properties of enum-relation resolution (ResolveEnums) in LispEnv.eval.  *)
(***************************************************************************)
\* the turn of apply_macros that runs ResolveEnums on sexp
ResolveTurn == lisp'.cls = "ResolveEnums"
\* an enum symbol declared with the kind number
NumEnumSym(v) == is_enum_sexp(v, ENUM) /\ v.a[2] = Str("number")
\* the order of the integers, by the name of the operator
Cmp(op, x, y) ==
    CASE op = "lt" -> x < y
      [] op = "le" -> x <= y
      [] op = "gt" -> x > y
      [] op = "ge" -> x >= y
\* the members of the enum of the symbol v
Domain(v) == members(v.a[1].s)

\* C21: for a numeric enum with member set D, a literal k and an inequality
\* op, ResolveEnums rewrites `symbol op k` into membership in
\* {m in D : m op k} and `k op symbol` into membership in {m in D : k op m}
C21_InequalityResolved ==
    [][(ResolveTurn /\ sexp.s \in {"lt", "le", "gt", "ge"}) =>
          /\ (NumEnumSym(sexp.a[1]) /\ sexp.a[2].k = "number") =>
                result' = InSexp(sexp.a[1].a[1].s,
                                 {m \in Domain(sexp.a[1]) : Cmp(sexp.s, m, sexp.a[2].n)})
          /\ (sexp.a[1].k = "number" /\ NumEnumSym(sexp.a[2])) =>
                result' = InSexp(sexp.a[2].a[1].s,
                                 {m \in Domain(sexp.a[2]) : Cmp(sexp.s, sexp.a[1].n, m)})]_vars

\* a relation between an enum symbol and a literal, in either order
IsEnumRelation(v) ==
    /\ v.k = "tuple"
    /\ Len(v.a) = 2
    /\ \/ is_enum_sexp(v.a[1], ENUM) /\ is_atom(v.a[2])
       \/ is_atom(v.a[1]) /\ is_enum_sexp(v.a[2], ENUM)
EnumSide(v) == IF is_enum_sexp(v.a[1], ENUM) THEN v.a[1] ELSE v.a[2]
LitSide(v) == IF is_enum_sexp(v.a[1], ENUM) THEN v.a[2] ELSE v.a[1]
\* the literal is a member of the enum of the symbol
IsMember(lit, sym) == lit.k = "number" /\ lit.n \in Domain(sym)

\* C22: ResolveEnums rewrites `enum_symbol == literal`, in either operand
\* order, into the membership predicate with the set {literal}; when the
\* literal is no member of the enum, or the declared kind of the symbol is not
\* the kind of the literal, it raises and nothing is rewritten
C22_EqualityResolved ==
    [][(ResolveTurn /\ sexp.s = "==" /\ IsEnumRelation(sexp)) =>
          IF Kind(EnumSide(sexp)) = Kind(LitSide(sexp)) /\ IsMember(LitSide(sexp), EnumSide(sexp))
          THEN /\ result' = InSexp(EnumSide(sexp).a[1].s, {LitSide(sexp).n})
               /\ sexp' = result'
               /\ pc' = "macros"
          ELSE /\ IsRaise(result')
               /\ pc' = "rejected"
               /\ sexp' = sexp]_vars

\* ResolveEnums has raised on `MaxLit == E`, the literal on the left and no
\* member of E, and the sexp is still the one it was given
C22_Witness ==
    /\ lisp.cls = "ResolveEnums"
    /\ pc = "rejected"
    /\ IsRaise(result)
    /\ sexp = Tuple("==", <<Num(MaxLit), SymbolSexp("E", "number")>>)

\* C23: when no member of the enum satisfies an inequality between an enum
\* symbol and a literal, enum-relation resolution raises instead of producing
\* a membership predicate over the empty set
C23_EmptyInequalityRaises ==
    [][(/\ ResolveTurn
        /\ sexp.s \in {"lt", "le", "gt", "ge"}
        /\ NumEnumSym(sexp.a[1])
        /\ sexp.a[2].k = "number"
        /\ {m \in Domain(sexp.a[1]) : Cmp(sexp.s, m, sexp.a[2].n)} = {})
          => IsRaise(result') /\ pc' = "rejected"]_vars

(***************************************************************************)
(* The order of the passes in LispEnv.eval.                                *)
(***************************************************************************)
\* the passes LispEnv.eval has run so far, in the order it ran them
PassesRun ==
    SubSeq(EnvMacros, 1, macro_idx) \o (IF lisp.cls = "TypeResolver" THEN <<"TypeResolver">> ELSE <<>>)
\* the place of a pass in the order lookup resolution and constant folding
\* (Compiler), type checking (TypeResolver), enum-relation resolution
\* (ResolveEnums), negation normalization and boolean simplification (Simplify)
PassRank(cls) ==
    CASE cls = "Compiler" -> 1
      [] cls = "TypeResolver" -> 2
      [] cls = "ResolveEnums" -> 3
      [] cls = "Simplify" -> 4
\* an 'and' of two membership predicates on one enum, which the merge step
\* of Simplify would have merged
Unmerged(v) ==
    /\ v.k = "tuple"
    /\ v.s = "and"
    /\ \E i, j \in 1..Len(v.a) :
          /\ i < j
          /\ v.a[i].k = "tuple" /\ v.a[i].s = "in"
          /\ v.a[j].k = "tuple" /\ v.a[j].s = "in"
          /\ v.a[i].a[1] = v.a[j].a[1]

\* C26: the passes run in the order lookup resolution, constant folding, type
\* checking, enum-relation resolution, negation normalization, boolean
\* simplification: type checking before enum-relation resolution, and
\* enum-relation resolution before simplification, so that no membership
\* predicate made from a relation escapes the merge step
C26_PassOrder ==
    /\ \A i, j \in 1..Len(PassesRun) : i < j => PassRank(PassesRun[i]) <= PassRank(PassesRun[j])
    /\ pc = "convert" => ~Unmerged(sexp)

(***************************************************************************)
(* Registration of the handles at the construction of a pass.              *)
(***************************************************************************)
\* the declarations of the class Probe, by position in handle_reg
ProbeDecls == {i \in 1..Len(handle_reg) : handle_reg[i].fun.cls = "Probe"}
\* the declarations of Probe for the operator tag t
DeclsOfTag(t) ==
    {i \in ProbeDecls : \E k \in 1..Len(handle_reg[i].ops) : handle_reg[i].ops[k] = TagOp(t)}
\* two handlers of Probe are declared for one operator tag
DuplicateTag == \E t \in {"f", "g"} : Cardinality(DeclsOfTag(t)) > 1
\* two handlers of Probe are declared with the same condition
DuplicateCond ==
    \E i, j \in ProbeDecls :
        /\ i < j
        /\ \E k \in 1..Len(handle_reg[i].ops) :
              handle_reg[i].ops[k].callable /\ handle_reg[i].ops[k] = handle_reg[j].ops[1]

\* C24: the construction of a pass in which one operator tag is registered
\* by two handlers fails with an error, and no instance with an ambiguous
\* mapping from tag to handler evaluates anything; handlers with a condition
\* are never taken for duplicates of each other
C24_DuplicateTagRejected ==
    /\ pc = "register_error" <=> (lisp.cls = "Probe" /\ DuplicateTag)
    /\ pc = "register_error" => result = Raise("ValueError")
    /\ pc = "evaluated" =>
          /\ ~lisp.error
          /\ \A t \in DOMAIN lisp.sexp_handles :
                /\ Cardinality(DeclsOfTag(t)) = 1
                /\ lisp.sexp_handles[t].fun = handle_reg[CHOOSE i \in DeclsOfTag(t) : TRUE].fun
          /\ Len(lisp.sexp_cond_handles) =
                Cardinality({i \in ProbeDecls : handle_reg[i].ops[1].callable})

\* the construction of Probe has failed on a tag declared twice
C24_Witness == pc = "register_error" /\ DuplicateTag /\ Cardinality(DeclsOfTag("f")) = 2

\* two handlers with the same condition are registered and Probe evaluates
C24_WitnessCond == pc = "evaluated" /\ DuplicateCond

(***************************************************************************)
(* Properties of the outbound filters of one source node.                  *)
(***************************************************************************)
\* the states in which transition_graph has returned the graph
GraphReturned == {"graph", "sweep", "evaluated", "eval_error", "sound_done"}
\* the list of u has an unconditional entry
HasDefault(u) == \E i \in 1..Len(transitions[u]) : transitions[u][i].cond = TrueE
\* the list of u has an entry that targets u itself
HasSelfLoop(u) == \E i \in 1..Len(transitions[u]) : transitions[u][i].target = u

\* C27: for every source node and every truth assignment to its conditions
\* at most one of the outbound edge filters built by transition_graph is
\* true: the filters of the edges from one source to distinct targets are
\* pairwise mutually exclusive
C27_FiltersExclusive ==
    pc # "input" =>
        \A e \in Edges, f \in Edges :
            (e[1] = f[1] /\ e[2] # f[2]) =>
                \A s \in Assignments : ~(Eval(filter[e], s) /\ Eval(filter[f], s))

\* the graph of [(p, b), (true, c)] at a is returned: a->b has p and a->c,
\* whose condition alone overlaps p, has ~p
C27_Witness ==
    /\ pc = "graph"
    /\ transitions["a"] = <<[cond |-> Sym("p"), target |-> "b"],
                            [cond |-> TrueE, target |-> "c"]>>
    /\ Equiv(filter[<<"a", "b">>], Sym("p"))
    /\ Equiv(filter[<<"a", "c">>], Not(Sym("p")))

\* C28: for every source node whose list has an unconditional entry the
\* disjunction of the filters of its outbound edges in the returned graph is
\* a tautology (of a node that has outbound edges), and the node passes
\* soundness_check, whether or not the list has an entry that targets the
\* node itself
C28_DefaultIsExhaustive ==
    /\ pc \in GraphReturned =>
          \A u \in Nodes : (HasDefault(u) /\ succ[u] # <<>>) => Exhaustive(u)
    /\ pc = "sound_done" => \A u \in DOMAIN sound : HasDefault(u) => sound[u]

(***************************************************************************)
(* The simplification of the edge filters by PoolProcess.process_batch     *)
(* (src/fbc/util.py), lines 218-222 of transition_graph, with the worker   *)
(* processes of the Pool taking and finishing their tasks in any order.    *)
(***************************************************************************)
\* the most entries of the transitions of a run with the Pool
MaxBatch == 2
\* the most worker processes of the Pool (cpu_count())
MaxProcs == 2

\* the caller appends one (cond, target) entry to the list of node u
BatchTransition(u, c, t) ==
    /\ pc = "input"
    /\ TotalLen(transitions) < MaxBatch
    /\ transitions' = [transitions EXCEPT ![u] = Append(@, [cond |-> c, target |-> t])]
    /\ UNCHANGED <<pc, filter, succ, pred, source, nodes, idx, processed, sound>>
    /\ UNCHANGED libVars
    /\ UNCHANGED runVars

\* the orders in which g.edges may go through the nodes (the nodes were
\* added from a set)
NodeOrders ==
    {o \in [1..Len(NodeSeq) -> Nodes] : \A i, j \in 1..Len(NodeSeq) : i # j => o[i] # o[j]}

RECURSIVE g_edges(_, _)
\* g.edges(data=True) from the i-th node of the order on: (nfrom, nto, ndata)
g_edges(order, i) ==
    IF i > Len(order) THEN <<>>
    ELSE [k \in 1..Len(succ[order[i]]) |->
             [nfrom |-> order[i], nto |-> succ[order[i]][k],
              filter |-> filter[<<order[i], succ[order[i]][k]>>]]]
         \o g_edges(order, i + 1)

\* the pool handle of transition_graph: lambda nfrom, nto, ndata:
\* (nfrom, nto, {'filter': simplify(ndata['filter'])})
pool_handle(item) ==
    [nfrom |-> item.nfrom, nto |-> item.nto, filter |-> Simplify(item.filter)]

\* process_batch up to the start of pool.starmap with `processes` workers
process_batch(order, processes) ==
    /\ pc = "simplify"
    /\ batch' = g_edges(order, 1)
    /\ pool' = [w \in 1..processes |-> 0]
    /\ result_batch' = <<>>
    /\ pc' = "pool"
    /\ UNCHANGED <<graphVars, libVars, macro_idx>>

\* the tasks of the batch that a worker has taken
Taken == DOMAIN result_batch \cup {pool[w] : w \in DOMAIN pool}

\* the idle worker w takes the next task of the batch
TakeTask(w) ==
    /\ pc = "pool"
    /\ pool[w] = 0
    /\ \E k \in 1..Len(batch) :
          /\ k \notin Taken
          /\ \A j \in 1..(k - 1) : j \in Taken
          /\ pool' = [pool EXCEPT ![w] = k]
    /\ UNCHANGED <<graphVars, libVars, pc, macro_idx, batch, result_batch>>

\* the worker w finishes PoolProcess._process_single on its task; the result
\* takes the place of the task in the list starmap returns
FinishTask(w) ==
    /\ pc = "pool"
    /\ pool[w] # 0
    /\ result_batch' = [k \in DOMAIN result_batch \cup {pool[w]} |->
                           IF k = pool[w] THEN pool_handle(batch[k]) ELSE result_batch[k]]
    /\ pool' = [pool EXCEPT ![w] = 0]
    /\ UNCHANGED <<graphVars, libVars, pc, macro_idx, batch>>

RECURSIVE JoinLoop(_, _, _)
\* the loop of lines 221-222 from the k-th result on:
\* g.edges[edge_from, edge_to]['filter'] = data['filter']
JoinLoop(f, results, k) ==
    IF k > Len(results) THEN f
    ELSE JoinLoop([f EXCEPT ![<<results[k].nfrom, results[k].nto>>] = results[k].filter],
                  results, k + 1)

\* JoinBatch that gives the k-th result to the k-th edge counted from the
\* end of the batch
JoinBatch_mut ==
    /\ pc = "pool"
    /\ DOMAIN result_batch = 1..Len(batch)
    /\ filter' = JoinLoop(filter,
                          [k \in 1..Len(batch) |->
                              [nfrom |-> batch[Len(batch) + 1 - k].nfrom,
                               nto |-> batch[Len(batch) + 1 - k].nto,
                               filter |-> result_batch[k].filter]], 1)
    /\ pc' = "graph"
    /\ batch' = <<>>
    /\ pool' = <<>>
    /\ result_batch' = <<>>
    /\ UNCHANGED <<transitions, succ, pred, source, nodes, idx, processed, sound>>
    /\ UNCHANGED <<libVars, macro_idx>>

\* starmap returns when every task has finished, the Pool is closed,
\* process_batch returns and lines 221-222 write the filters of the results
\* onto the edges
JoinBatch ==
    /\ pc = "pool"
    /\ DOMAIN result_batch = 1..Len(batch)
    /\ filter' = JoinLoop(filter, result_batch, 1)
    /\ pc' = "graph"
    /\ batch' = <<>>
    /\ pool' = <<>>
    /\ result_batch' = <<>>
    /\ UNCHANGED <<transitions, succ, pred, source, nodes, idx, processed, sound>>
    /\ UNCHANGED <<libVars, macro_idx>>

NextP ==
    \/ \E u \in Nodes, c \in Conds, t \in Nodes : BatchTransition(u, c, t)
    \/ BuildEdges
    \/ CheckCycles
    \/ RemoveSelfLoops
    \/ \E order \in NodeOrders, processes \in 1..MaxProcs : process_batch(order, processes)
    \/ \E w \in DOMAIN pool : TakeTask(w)
    \/ \E w \in DOMAIN pool : FinishTask(w)
    \/ JoinBatch

SpecP == Init /\ [][NextP]_vars

\* the filter the edge e has when the simplification step begins: the one
\* built from the transitions, which the removal of the self-loops leaves
PreStepFilter(e) == EdgeFilters(transitions, e[1]).ef[e[2]]

\* C25: for any number of workers and any order in which they finish, every
\* edge ends up with the simplified form of its own filter from before the
\* step: the results are matched to the edges by (source, target), and no
\* filter is lost, put onto another edge or left unsimplified
C25_JoinByEdgeIdentity ==
    /\ [](pc = "graph" =>
            /\ Edges = {e \in TransitionPairs(transitions) : e[1] # e[2]}
            /\ \A e \in Edges : filter[e] = Simplify(PreStepFilter(e)))
    /\ [][(pc = "pool" /\ pc' = "graph") =>
            /\ DOMAIN filter' = DOMAIN filter
            /\ \A e \in Edges : filter'[e] = Simplify(filter[e])]_vars

\* two workers: the second task of the batch has finished while the first is
\* still running; the two edges have different filters, one of them not in
\* simplified form
C25_Witness ==
    /\ pc = "pool"
    /\ Len(batch) = 2
    /\ Len(pool) = 2
    /\ Simplify(batch[1].filter) # Simplify(batch[2].filter)
    /\ \E k \in 1..2 : Simplify(batch[k].filter) # batch[k].filter
    /\ DOMAIN result_batch = {2}
    /\ \E w \in DOMAIN pool : pool[w] = 1

(***************************************************************************)
(* The merge of the membership predicates under 'and' and 'or' (Simplify). *)
(***************************************************************************)
\* a membership predicate on an enum, or the negation of one
IsMembership(v) ==
    /\ v.k = "tuple"
    /\ \/ v.s \in {"in", "nin"} /\ v.a[1].k = "Enum"
       \/ v.s = "not" /\ v.a[1].k = "tuple" /\ v.a[1].s \in {"in", "nin"}
\* an 'and' or 'or' node of membership predicates and boolean symbols, with
\* a membership predicate among them
IsMergeInput(v) ==
    /\ v.k = "tuple"
    /\ v.s \in {"and", "or"}
    /\ \A i \in 1..Len(v.a) : IsMembership(v.a[i]) \/ v.a[i] = SymbolSexp("b", "boolean")
    /\ \E i \in 1..Len(v.a) : IsMembership(v.a[i])

RECURSIVE Holds(_, _, _)
\* the truth of the sexp v when the enum symbols have the value e and the
\* boolean symbols the value bv
Holds(v, e, bv) ==
    IF v.k = "boolean" THEN v = Bool(TRUE)
    ELSE IF v.s = "symbol" THEN bv
    ELSE IF v.s = "in" THEN e \in v.a[2].m
    ELSE IF v.s = "nin" THEN e \notin v.a[2].m
    ELSE IF v.s = "not" THEN ~Holds(v.a[1], e, bv)
    ELSE IF v.s = "and" THEN \A i \in 1..Len(v.a) : Holds(v.a[i], e, bv)
    ELSE \E i \in 1..Len(v.a) : Holds(v.a[i], e, bv)

\* C29: the merge of the operands of an 'and' or 'or' node by Simplify always
\* returns a result, and for every value of the enum symbol within its
\* domain the result is true exactly when the node is, for operands that mix
\* 'in' and 'nin' terms on one symbol and for operands with only 'nin' terms
C29_MergePreservesMeaning ==
    (pc = "evaluated" /\ lisp.cls = "Simplify" /\ IsMergeInput(sexp)) =>
        /\ ~IsRaise(result)
        /\ \A e \in members("E"), bv \in BOOLEAN : Holds(result, e, bv) <=> Holds(sexp, e, bv)

(***************************************************************************)
(* AlgInterpreter.eval on the membership predicates of a symbol that is no *)
(* enum.                                                                   *)
(***************************************************************************)
\* the symbols of the predicates: symbol sexps and a bare name
AlgSymbols == {SymbolSexp("x", "number"), SymbolSexp("y", "number"), Str("z")}
\* the literal sets of the predicates
AlgSets == SUBSET (0..MaxLit) \ {{}}

InitI ==
    /\ GraphIdle
    /\ AlgIdle
    /\ RunIdle
    /\ pc = "sexp_input"
    /\ handle_reg = MacroDecls
    /\ lisp = NoLisp
    /\ sexp \in AlgSymbols
    /\ result = None

\* the tree (op, sym, S) of a membership predicate, op 'in' or 'nin'
MemberSexp(op, S) ==
    /\ pc = "sexp_input"
    /\ sexp \in AlgSymbols
    /\ sexp' = Tuple(op, <<sexp, PySet(S)>>)
    /\ UNCHANGED <<graphVars, operands, call, ret, pc, handle_reg, lisp, result>>
    /\ UNCHANGED runVars

\* LispEnv.convert_sexp(sexp): AlgInterpreter.eval(sexp)
convert_sexp ==
    /\ pc = "sexp_input"
    /\ lisp' = NewLisp("AlgInterpreter")
    /\ result' = eval_step(lisp', sexp)
    /\ pc' = "converted"
    /\ UNCHANGED <<graphVars, operands, call, ret, handle_reg, sexp>>
    /\ UNCHANGED runVars

NextI ==
    \/ \E op \in {"in", "nin"}, S \in AlgSets : MemberSexp(op, S)
    \/ convert_sexp

SpecI == InitI /\ [][NextI]_vars

\* the number a sympy Integer stands for
IntegerValue(e) == CHOOSE i \in 0..MaxLit : Integer(i) = e

RECURSIVE ExprHolds(_, _)
\* the truth of the sympy expression e when its symbol has the value v
ExprHolds(e, v) ==
    CASE e.op = "true" -> TRUE
      [] e.op = "false" -> FALSE
      [] e.op = "Eq" -> v = IntegerValue(e.args[2])
      [] e.op = "Ne" -> v # IntegerValue(e.args[2])
      [] e.op = "not" -> ~ExprHolds(e.args[1], v)
      [] e.op = "and" -> \A i \in 1..Len(e.args) : ExprHolds(e.args[i], v)
      [] e.op = "or" -> \E i \in 1..Len(e.args) : ExprHolds(e.args[i], v)

\* C30: for a symbol that is no enum AlgInterpreter interprets
\* ('nin', sym, S) as the exact negation of ('in', sym, S): the predicate is
\* true exactly when the value of the symbol equals no member of S, for
\* every set S with one or more members
C30_NinNegatesIn ==
    (pc = "converted" /\ sexp.k = "tuple" /\ sexp.s = "nin") =>
        /\ result.k = "sympy"
        /\ \A v \in 0..(MaxLit + 1) : ExprHolds(result.a[1], v) <=> v \notin sexp.a[2].m

====
